---- MODULE Spec2Model ----
(***************************************************************************)
(* Verification model of the Claude Code Telegram bot core:                *)
(*   - ClaudeProcessManager (src/src/claude/integration.py): subprocess    *)
(*     execution, bounded read loop, timeout handling, process registry;   *)
(*   - ClaudeProcessManager._build_command (pure function);                *)
(*   - SessionManager.get_or_create_session (session.py is not part of     *)
(*     the sources at hand; modelled from the specification, section 4.4). *)
(***************************************************************************)
EXTENDS Integers, Sequences, FiniteSets, TLC

(***************************************************************************)
(* Bounds of the model.                                                    *)
(***************************************************************************)
\* lines the read loop of one invocation takes in Spec
MaxLines == 1
\* lines the read loop of the single invocation takes in SpecRead
MaxReadLines == 3
\* message_buffer capacity (deque maxlen); stands for the program's 1000
max_message_buffer == 2

\* ids of the concurrent execute_command invocations of Spec (uuid4 values)
Invocations == {1, 2}

\* get_or_create_session calls in SpecSess
NumCalls == 3
\* largest reading of the clock in SpecSess
MaxTime == 2
\* Settings.max_sessions_per_user of the session manager under test
max_sessions_per_user == 2
\* validate_tool_call evaluations in SpecMonitor
MaxEvals == 2
\* user ids of SpecSess
Users == {1, 2}

(***************************************************************************)
(* Python values.  Optional values are sequences of length at most one.    *)
(***************************************************************************)
NoneOpt == << >>
Some(x) == << x >>

\* dict.get(key, default)
Get(d, k, default) == IF k \in DOMAIN d THEN d[k] ELSE default

\* str.join over a list of strings
RECURSIVE Join(_, _)
Join(sep, xs) ==
    IF xs = << >> THEN ""
    ELSE IF Len(xs) = 1 THEN xs[1]
    ELSE xs[1] \o sep \o Join(sep, Tail(xs))

(***************************************************************************)
(* Output lines of the external process.  A line is identified by what     *)
(* json.loads makes of it:                                                 *)
(*   json = "bad"   : not decodable (JSONDecodeError), e.g. `oops` or ``   *)
(*   json = "int"   : a JSON number, null, true or false                   *)
(*   json = "str"   : a JSON string; has = whether it contains `type`      *)
(*   json = "dict"  : a JSON object, d = its key/value map                 *)
(* The content of an assistant/user message and the result of a            *)
(* tool_result are tagged list / str / dict, as JSON allows any of them.   *)
(***************************************************************************)
LGarbage   == [json |-> "bad"]
LScalar    == [json |-> "int"]
LString    == [json |-> "str", has |-> FALSE]
LStringT   == [json |-> "str", has |-> TRUE]
LNoType    == [json |-> "dict", d |-> [session_id |-> "s1"]]
LAsstText  == [json |-> "dict",
               d |-> [type |-> "assistant", timestamp |-> "t1",
                      message |-> [content |-> [list |->
                          << [type |-> "text", text |-> "hi"] >>]]]]
LAsstTool  == [json |-> "dict",
               d |-> [type |-> "assistant", timestamp |-> "t2",
                      message |-> [content |-> [list |->
                          << [type |-> "tool_use", name |-> "Read", id |-> "u1"] >>]]]]
LAsstBad   == [json |-> "dict",
               d |-> [type |-> "assistant",
                      message |-> [content |-> [str |-> "hi"]]]]
LUser      == [json |-> "dict",
               d |-> [type |-> "user", message |-> [content |-> [str |-> "echo"]]]]
LToolRes   == [json |-> "dict",
               d |-> [type |-> "tool_result", tool_use_id |-> "u1",
                      result |-> [dict |-> [content |-> "out"]]]]
LToolResStr == [json |-> "dict",
               d |-> [type |-> "tool_result", result |-> [str |-> "out"]]]
LWeird     == [json |-> "dict", d |-> [type |-> "weird"]]
LResult    == [json |-> "dict",
               d |-> [type |-> "result", result |-> "done",
                      session_id |-> "s1", cost_usd |-> 1]]
LResult2   == [json |-> "dict",
               d |-> [type |-> "result", result |-> "again",
                      session_id |-> "s2", cost_usd |-> 2]]

\* a result line without content, session id and cost
LResultBare == [json |-> "dict", d |-> [type |-> "result"]]

\* lines written by a process that reports more than one result
LinesResult == {LAsstText, LResult, LResult2, LResultBare}

\* lines written by the processes of Spec (several invocations)
LinesSmall == {LAsstText, LResult}
\* lines written by the process of SpecRead (one invocation)
LinesAll == {LGarbage, LScalar, LString, LStringT, LNoType, LAsstText,
             LAsstTool, LAsstBad, LUser, LToolResStr, LWeird, LResult}

\* json.loads(line) raises JSONDecodeError
JSONDecodeError(line) == line.json = "bad"

\* `field in msg` raises TypeError for a msg that is no container
ValidateRaises(line) == line.json = "int"

\* _validate_message_structure: all(field in msg for field in ["type"])
_validate_message_structure(line) ==
    IF line.json = "dict" THEN "type" \in DOMAIN line.d ELSE line.has

\* text blocks / tool_use blocks of an assistant content list
RECURSIVE TextContent(_)
TextContent(blocks) ==
    IF blocks = << >> THEN << >>
    ELSE (IF Get(blocks[1], "type", "") = "text"
          THEN << Get(blocks[1], "text", "") >> ELSE << >>)
         \o TextContent(Tail(blocks))

RECURSIVE ToolCalls(_)
ToolCalls(blocks) ==
    IF blocks = << >> THEN << >>
    ELSE (IF Get(blocks[1], "type", "") = "tool_use"
          THEN << [name |-> Get(blocks[1], "name", "None"),
                   id |-> Get(blocks[1], "id", "None")] >>
          ELSE << >>)
         \o ToolCalls(Tail(blocks))

\* _parse_assistant_message: raises AttributeError when content is a str
\* (block.get on a character)
AssistantRaises(d) ==
    LET message == Get(d, "message", [x \in {} |-> 0])
        content == Get(message, "content", [list |-> << >>])
    IN  "list" \notin DOMAIN content

_parse_assistant_message(d) ==
    LET message == Get(d, "message", [x \in {} |-> 0])
        content == Get(message, "content", [list |-> << >>])
        texts == TextContent(content.list)
        calls == ToolCalls(content.list)
    IN  [type |-> "assistant",
         content |-> IF texts # << >> THEN Some(Join("\n", texts)) ELSE NoneOpt,
         tool_calls |-> calls]

\* _parse_tool_result_message: line 430 calls result.get on any result
ToolResultRaises(d) ==
    "dict" \notin DOMAIN Get(d, "result", [dict |-> [x \in {} |-> 0]])

_parse_tool_result_message(d) ==
    LET result == Get(d, "result", [dict |-> [x \in {} |-> 0]])
    IN  [type |-> "tool_result",
         content |-> IF "content" \in DOMAIN result.dict
                     THEN Some(result.dict.content) ELSE NoneOpt,
         tool_calls |-> << >>]

\* the remaining mapping functions keep the type only
_parse_other_message(d) ==
    [type |-> d.type, content |-> NoneOpt, tool_calls |-> << >>]

EventTypes == {"assistant", "tool_result", "user", "system", "error", "progress"}

\* _parse_stream_message raises (AttributeError)
ParseRaises(line) ==
    IF line.json # "dict" THEN TRUE
    ELSE IF line.d.type = "assistant" THEN AssistantRaises(line.d)
    ELSE IF line.d.type = "tool_result" THEN ToolResultRaises(line.d)
    ELSE FALSE

\* faulty variant of _parse_stream_message: a line of any other type is
\* mapped to an event as well
ParseStreamMessageAnyType(line) ==
    LET d == line.d
    IN  IF d.type = "assistant" THEN Some(_parse_assistant_message(d))
        ELSE IF d.type = "tool_result" THEN Some(_parse_tool_result_message(d))
        ELSE Some(_parse_other_message(d))

\* _parse_stream_message: Optional[StreamUpdate]
_parse_stream_message(line) ==
    LET d == line.d
    IN  IF d.type = "assistant" THEN Some(_parse_assistant_message(d))
        ELSE IF d.type = "tool_result" THEN Some(_parse_tool_result_message(d))
        ELSE IF d.type \in {"user", "system", "error", "progress"}
             THEN Some(_parse_other_message(d))
        ELSE NoneOpt

\* faulty variant of DequeAppend: a full buffer drops the new message
DequeAppendDropsNewest(buf, msg) ==
    IF Len(buf) >= max_message_buffer THEN buf ELSE Append(buf, msg)

\* deque(maxlen).append
DequeAppend(buf, msg) ==
    IF Len(buf) >= max_message_buffer
    THEN Append(Tail(buf), msg)
    ELSE Append(buf, msg)

\* tools_used of _parse_result for one buffered message
ToolsOfMessage(line) ==
    IF line.d.type = "assistant"
    THEN LET d == line.d
             message == Get(d, "message", [x \in {} |-> 0])
             content == Get(message, "content", [list |-> << >>])
             calls == ToolCalls(content.list)
         IN  [k \in DOMAIN calls |->
                 [name |-> calls[k].name,
                  timestamp |-> Get(d, "timestamp", "None")]]
    ELSE << >>

RECURSIVE ToolsUsed(_)
ToolsUsed(messages) ==
    IF messages = << >> THEN << >>
    ELSE ToolsOfMessage(messages[1]) \o ToolsUsed(Tail(messages))

\* _parse_result(result, messages): ClaudeResponse
_parse_result(res, messages) ==
    [content |-> Get(res, "result", ""),
     session_id |-> Get(res, "session_id", ""),
     cost |-> Get(res, "cost_usd", 0),
     tools_used |-> ToolsUsed(messages)]

(***************************************************************************)
(* Diagnostic output and the error raised on a non-zero exit,              *)
(* integration.py lines 281-321.  A text is a sequence of tokens: a word,  *)
(* or a parenthesised group with the text between the parentheses.         *)
(***************************************************************************)
Word(w) == [k |-> "word", s |-> w]
Paren(w) == [k |-> "paren", s |-> w]

\* str.lower() on the words that occur
Lower(w) ==
    CASE w = "Usage" -> "usage" [] w = "Limit" -> "limit"
      [] w = "Reached" -> "reached" [] w = "Reset" -> "reset"
      [] w = "At" -> "at" [] OTHER -> w

\* words of the form \d+[apm]+ (case ignored)
TimeWords == {"4pm", "11AM"}

EGeneric == << Word("fatal"), Word("error") >>
ELimit ==
    << Word("usage"), Word("limit"), Word("reached"),
       Word("reset"), Word("at"), Word("4pm"), Paren("PST") >>
ELimitUpper ==
    << Word("Usage"), Word("Limit"), Word("Reached"),
       Word("Reset"), Word("At"), Word("11AM") >>
ELimitNoTime == << Word("usage"), Word("limit"), Word("reached") >>
ELimitCode ==
    << Word("error"), Paren("429"), Word("usage"), Word("limit"),
       Word("reached"), Word("reset"), Word("at"), Word("4pm"), Paren("PST") >>
EResetOnly == << Word("limit"), Word("reset"), Word("at"), Word("4pm"), Paren("PST") >>

ErrSmall == {EGeneric}
ErrAll == {<< >>, EGeneric, ELimit, ELimitUpper, ELimitNoTime, ELimitCode,
           EResetOnly}

\* positions at which the words ws follow one another in the text
Occurrences(text, ws) ==
    {k \in 1..(Len(text) - Len(ws) + 1) :
        \A j \in 1..Len(ws) :
            text[k + j - 1].k = "word" /\ Lower(text[k + j - 1].s) = ws[j]}

\* line 291: "usage limit reached" in error_msg.lower()
HasUsageLimitMarker(text) ==
    Occurrences(text, << "usage", "limit", "reached" >>) # {}

\* lines 295-300: re.search(r"reset at (\d+[apm]+)", ..., re.IGNORECASE)
ResetTime(text) ==
    LET hits == {k \in Occurrences(text, << "reset", "at" >>) :
                    /\ k + 2 <= Len(text)
                    /\ text[k + 2].k = "word"
                    /\ text[k + 2].s \in TimeWords}
    IN  IF hits = {} THEN "later"
        ELSE text[(CHOOSE k \in hits : \A j \in hits : k <= j) + 2].s

\* lines 298-301: re.search(r"\(([^)]+)\)", error_msg), the first group
Timezone(text) ==
    LET hits == {k \in DOMAIN text : text[k].k = "paren"}
    IN  IF hits = {} THEN ""
        ELSE text[CHOOSE k \in hits : \A j \in hits : k <= j].s

\* lines 290-321: the message of the ClaudeProcessError that is raised
ProcessErrorMessage(code, text) ==
    IF HasUsageLimitMarker(text)
    THEN [kind |-> "usage_limit", reset_time |-> ResetTime(text),
          timezone |-> Timezone(text)]
    ELSE [kind |-> "exited", code |-> code, text |-> text]

(***************************************************************************)
(* State of the process manager and of its invocations.                    *)
(***************************************************************************)
VARIABLES
    pc,               \* position of each execute_command invocation
    hasCb,            \* a stream_callback was supplied
    proc,             \* external process: none, running, exited, closed
    stdoutOpen,       \* the process has not closed its standard output
    rcode,            \* exit code of the process once exited
    killedBy,         \* who sent SIGKILL to the running process
    seen,             \* lines the read loop has taken from stdout so far
    message_buffer,   \* deque of accepted messages
    result,           \* the retained result message (Optional)
    parsing_errors,   \* length of the parsing_errors list
    cbLog,            \* updates the stream callback was invoked with
    cbRaised,         \* some callback invocation raised
    return_code,      \* value of `await process.wait()` in the read task
    timedOut,         \* wait_for raised TimeoutError
    outcome,          \* how execute_command ended
    response,         \* the ClaudeResponse returned (Optional)
    error_msg,        \* the decoded stderr that was read (Optional)
    raised_msg,       \* message of the ClaudeProcessError raised (Optional)
    active_processes, \* registry: dict entries in insertion order, 0 = deleted
    ka                \* kill_all_processes: position of its loop, ids at its call

orchVars == << pc, hasCb, proc, stdoutOpen, rcode, killedBy, seen, message_buffer, result, parsing_errors, cbLog, cbRaised,
               return_code, timedOut, outcome, response, error_msg, raised_msg,
               active_processes, ka >>

VARIABLES
    storage,          \* persisted session records, in order of creation
    now,              \* the clock
    nextId,           \* next locally generated session id
    lock,             \* per-user mutex: the call holding it, 0 = free
    call,             \* the get_or_create_session calls
    nStarted,         \* number of calls made so far
    evicted,          \* the records evicted so far
    created           \* number of records created per user

sessVars == << storage, now, nextId, lock, call, nStarted, evicted, created >>

VARIABLES
    cmdIn,            \* arguments and configuration of _build_command
    cmdOut            \* the command it returned (Optional)

cmdVars == << cmdIn, cmdOut >>

VARIABLES
    mon_config,          \* Settings and validator the ToolMonitor was built with
    tool_usage,          \* defaultdict(int): tool name -> count
    security_violations, \* list of references to violation dicts
    heap,                \* the violation dicts, by reference
    snapshot,            \* the list get_security_violations handed out (Optional)
    monRet,              \* what the last validate_tool_call returned (Optional)
    nEval,               \* number of validate_tool_call evaluations so far
    sinceReset           \* evaluations since the last reset_stats

monVars == << mon_config, tool_usage, security_violations, heap, snapshot,
              monRet, nEval, sinceReset >>

VARIABLES
    usage_session,       \* the ClaudeSession usage is recorded on
    usage_storage,       \* persisted session records
    runs                 \* the run results recorded so far, in order

usageVars == << usage_session, usage_storage, runs >>

VARIABLES
    exp_last_used,       \* last_used of the session, in clock units
    exp_now,             \* the clock, in clock units
    exp_ret              \* what the last is_expired call was asked and returned (Optional)

expiryVars == << exp_last_used, exp_now, exp_ret >>

VARIABLES
    active_sessions,     \* ClaudeSDKManager.active_sessions: the session ids that are keys
    uuids,               \* number of uuid4 values drawn so far
    sdk_ret,             \* arguments and outcome of the last execute_command (Optional)
    tool_runs,           \* number of SDK queries started so far
    fac_session,         \* the Session record run_command works on (Optional)
    session_cache,       \* in-memory session cache of the session manager
    fac_ret,             \* outcome of the last run_command (Optional)
    app_pc,              \* position of run_application
    storage_closed       \* storage.close() has returned

appVars == << active_sessions, uuids, sdk_ret, tool_runs, fac_session, session_cache, fac_ret, app_pc, storage_closed >>

VARIABLES
    fmtIn,               \* content and max_message_length of format_response
    fmtOut               \* the list of messages it returned (Optional)

fmtVars == << fmtIn, fmtOut >>

VARIABLES
    stream,              \* the bytes the process writes to its standard output
    chunks,              \* number of bytes each stream.read returned so far
    buffer,              \* bytes read and not yet yielded
    yielded,             \* the lines yielded so far
    stream_pc            \* position of the generator

streamVars == << stream, chunks, buffer, yielded, stream_pc >>

vars == << orchVars, sessVars, cmdVars, monVars, usageVars, expiryVars, appVars, fmtVars, streamVars >>

\* left alone by the process manager
notOrch == << sessVars, cmdVars, monVars, usageVars, expiryVars, appVars, fmtVars, streamVars >>
\* left alone by the session manager
notSess == << orchVars, cmdVars, monVars, usageVars, expiryVars, appVars, fmtVars, streamVars >>
\* left alone by _build_command
notCmd == << orchVars, sessVars, monVars, usageVars, expiryVars, appVars, fmtVars, streamVars >>
\* left alone by the tool monitor
notMon == << orchVars, sessVars, cmdVars, usageVars, expiryVars, appVars, fmtVars, streamVars >>
\* left alone by record_usage
notUsage == << orchVars, sessVars, cmdVars, monVars, expiryVars, appVars, fmtVars, streamVars >>
\* left alone by is_expired
notExpiry == << orchVars, sessVars, cmdVars, monVars, usageVars, appVars, fmtVars, streamVars >>
\* left alone by the SDK manager, the facade and run_application
notApp == << orchVars, sessVars, cmdVars, monVars, usageVars, expiryVars, fmtVars, streamVars >>
\* left alone by the response formatter
notFmt == << orchVars, sessVars, cmdVars, monVars, usageVars, expiryVars, appVars, streamVars >>
\* left alone by _read_stream_bounded
notStream == << orchVars, sessVars, cmdVars, monVars, usageVars, expiryVars, appVars, fmtVars >>

\* keys of the registry
Registered == {active_processes[k] : k \in DOMAIN active_processes} \ {0}

\* len(active_processes)
RegistrySize == Cardinality(Registered)

\* faulty variant of DictDel: every entry is removed
DictDelEvery(reg, i) == [k \in DOMAIN reg |-> 0]

\* del active_processes[i]: the entry stays in the table as a dummy
DictDel(reg, i) == [k \in DOMAIN reg |-> IF reg[k] = i THEN 0 ELSE reg[k]]

InitOrch(I) ==
    /\ pc = [i \in I |-> "idle"]
    /\ hasCb = [i \in I |-> FALSE]
    /\ proc = [i \in I |-> "none"]
    /\ stdoutOpen = [i \in I |-> FALSE]
    /\ rcode = [i \in I |-> 0]
    /\ killedBy = [i \in I |-> {}]
    /\ seen = [i \in I |-> << >>]
    /\ message_buffer = [i \in I |-> << >>]
    /\ result = [i \in I |-> NoneOpt]
    /\ parsing_errors = [i \in I |-> 0]
    /\ cbLog = [i \in I |-> << >>]
    /\ cbRaised = [i \in I |-> FALSE]
    /\ return_code = [i \in I |-> NoneOpt]
    /\ timedOut = [i \in I |-> FALSE]
    /\ outcome = [i \in I |-> "none"]
    /\ response = [i \in I |-> NoneOpt]
    /\ error_msg = [i \in I |-> NoneOpt]
    /\ raised_msg = [i \in I |-> NoneOpt]
    /\ active_processes = << >>
    /\ ka = [pc |-> "idle", pos |-> 0, used |-> 0, cur |-> 0, snap |-> {}]

(***************************************************************************)
(* execute_command, integration.py lines 105-175.                          *)
(***************************************************************************)
\* faulty variant of Finish: the finally block does not delete the registry entry
FinishWithoutCleanup(i, out, resp) ==
    /\ pc' = [pc EXCEPT ![i] = "done"]
    /\ outcome' = [outcome EXCEPT ![i] = out]
    /\ response' = [response EXCEPT ![i] = resp]
    /\ UNCHANGED active_processes

\* leaving execute_command: return or raise, then the finally block
Finish(i, out, resp) ==
    /\ pc' = [pc EXCEPT ![i] = "done"]
    /\ outcome' = [outcome EXCEPT ![i] = out]
    /\ response' = [response EXCEPT ![i] = resp]
    /\ active_processes' = DictDel(active_processes, i)

\* execute_command is called; it awaits _start_process
Call(i, cb) ==
    /\ pc[i] = "idle"
    /\ hasCb' = [hasCb EXCEPT ![i] = cb]
    /\ pc' = [pc EXCEPT ![i] = "start"]
    /\ UNCHANGED << proc, stdoutOpen, rcode, killedBy, seen,
                    message_buffer, result, parsing_errors, cbLog, cbRaised,
                    return_code, timedOut, outcome, response,
                    active_processes, ka >>
    /\ UNCHANGED << error_msg, raised_msg, notOrch >>

\* _start_process returned: the process is registered, wait_for starts
StartProcess(i) ==
    /\ pc[i] = "start"
    /\ proc' = [proc EXCEPT ![i] = "running"]
    /\ stdoutOpen' = [stdoutOpen EXCEPT ![i] = TRUE]
    /\ active_processes' = Append(active_processes, i)
    /\ pc' = [pc EXCEPT ![i] = "read"]
    /\ UNCHANGED << hasCb, rcode, killedBy, seen,
                    message_buffer, result, parsing_errors, cbLog, cbRaised,
                    return_code, timedOut, outcome, response, ka >>
    /\ UNCHANGED << error_msg, raised_msg, notOrch >>

\* _start_process raised (binary not found): except Exception re-raises
StartFails(i) ==
    /\ pc[i] = "start"
    /\ Finish(i, "OSError", NoneOpt)
    /\ UNCHANGED << hasCb, proc, stdoutOpen, rcode, killedBy, seen, message_buffer, result, parsing_errors, cbLog,
                    cbRaised, return_code, timedOut, ka >>
    /\ UNCHANGED << error_msg, raised_msg, notOrch >>

(***************************************************************************)
(* The external process (created at integration.py lines 217-226).         *)
(***************************************************************************)
\* the process closes its standard output and keeps running
ProcCloseStdout(i) ==
    /\ proc[i] = "running"
    /\ stdoutOpen[i]
    /\ stdoutOpen' = [stdoutOpen EXCEPT ![i] = FALSE]
    /\ UNCHANGED << pc, hasCb, proc, rcode, killedBy, seen,
                    message_buffer, result, parsing_errors, cbLog, cbRaised,
                    return_code, timedOut, outcome, response,
                    active_processes, ka >>
    /\ UNCHANGED << error_msg, raised_msg, notOrch >>

\* the process exits: with -9 when it was killed, else with its own code
ProcExit(i, code) ==
    /\ proc[i] = "running"
    /\ proc' = [proc EXCEPT ![i] = "exited"]
    /\ rcode' = [rcode EXCEPT ![i] = IF killedBy[i] # {} THEN -9 ELSE code]
    /\ stdoutOpen' = [stdoutOpen EXCEPT ![i] = FALSE]
    /\ UNCHANGED << pc, hasCb, killedBy, seen,
                    message_buffer, result, parsing_errors, cbLog, cbRaised,
                    return_code, timedOut, outcome, response,
                    active_processes, ka >>
    /\ UNCHANGED << error_msg, raised_msg, notOrch >>

\* the event loop has seen the exit and the end of both pipes: the
\* subprocess transport is closed, Process.kill() raises ProcessLookupError
TransportClose(i) ==
    /\ proc[i] = "exited"
    /\ proc' = [proc EXCEPT ![i] = "closed"]
    /\ UNCHANGED << pc, hasCb, stdoutOpen, rcode, killedBy, seen, message_buffer, result, parsing_errors, cbLog,
                    cbRaised, return_code, timedOut, outcome, response,
                    active_processes, ka >>
    /\ UNCHANGED << error_msg, raised_msg, notOrch >>

(***************************************************************************)
(* _handle_process_output, integration.py lines 228-327.                   *)
(***************************************************************************)
\* what the body of the read loop does with one line
LineStep(line, cb) ==
    IF JSONDecodeError(line) THEN "skip"
    ELSE IF ValidateRaises(line) THEN "TypeError"
    ELSE IF ~ _validate_message_structure(line) THEN "skip"
    ELSE IF ParseRaises(line) THEN "AttributeError"
    ELSE IF _parse_stream_message(line) # NoneOpt /\ cb THEN "callback"
    ELSE "next"

\* faulty variant of CheckResult: the first result line is kept
CheckResultKeepsFirst(res, line) ==
    IF Get(line.d, "type", "None") = "result" /\ res = NoneOpt
    THEN Some(line.d) ELSE res

\* faulty variant of CheckResult: every message is retained as the result
CheckResultKeepsAny(res, line) == Some(line.d)

\* lines 259-261: if msg.get("type") == "result": result = msg
CheckResult(res, line) ==
    IF Get(line.d, "type", "None") = "result" THEN Some(line.d) ELSE res

\* one iteration of the read loop, up to the callback await if there is
\* one: the process has written `line` and the loop takes it
ReadLine(i, line, maxLines) ==
    /\ pc[i] = "read"
    /\ stdoutOpen[i]
    /\ Len(seen[i]) < maxLines
    /\ LET step == LineStep(line, hasCb[i])
       IN  /\ seen' = [seen EXCEPT ![i] = Append(@, line)]
           /\ parsing_errors' = [parsing_errors EXCEPT ![i] =
                                    IF step = "skip" THEN @ + 1 ELSE @]
           /\ message_buffer' = [message_buffer EXCEPT ![i] =
                                    IF step \in {"AttributeError", "callback", "next"}
                                    THEN DequeAppend(@, line) ELSE @]
           /\ cbLog' = [cbLog EXCEPT ![i] =
                            IF step = "callback"
                            THEN Append(@, _parse_stream_message(line)[1])
                            ELSE @]
           /\ result' = [result EXCEPT ![i] =
                            IF step = "next" THEN CheckResult(@, line) ELSE @]
           /\ IF step \in {"TypeError", "AttributeError"}
              THEN Finish(i, step, NoneOpt)
              ELSE /\ pc' = [pc EXCEPT ![i] =
                                IF step = "callback" THEN "callback" ELSE "read"]
                   /\ UNCHANGED << outcome, response, active_processes >>
    /\ UNCHANGED << hasCb, proc, stdoutOpen, rcode, killedBy,
                    cbRaised, return_code, timedOut, ka >>
    /\ UNCHANGED << error_msg, raised_msg, notOrch >>

\* faulty variant of CallbackReturns: an exception of the callback is not caught
CallbackRaisePropagates(i, raises) ==
    /\ pc[i] = "callback"
    /\ cbRaised' = [cbRaised EXCEPT ![i] = @ \/ raises]
    /\ result' = [result EXCEPT ![i] = CheckResult(@, seen[i][Len(seen[i])])]
    /\ IF raises
       THEN Finish(i, "Exception", NoneOpt)
       ELSE /\ pc' = [pc EXCEPT ![i] = "read"]
            /\ UNCHANGED << outcome, response, active_processes >>
    /\ UNCHANGED << hasCb, proc, stdoutOpen, rcode, killedBy,
                    seen, message_buffer, parsing_errors, cbLog, return_code,
                    timedOut, ka >>
    /\ UNCHANGED << error_msg, raised_msg, notOrch >>

\* lines 250-261: the awaited callback returns or raises an Exception,
\* which is caught and logged; then the result check of the iteration
CallbackReturns(i, raises) ==
    /\ pc[i] = "callback"
    /\ cbRaised' = [cbRaised EXCEPT ![i] = @ \/ raises]
    /\ result' = [result EXCEPT ![i] = CheckResult(@, seen[i][Len(seen[i])])]
    /\ pc' = [pc EXCEPT ![i] = "read"]
    /\ UNCHANGED << hasCb, proc, stdoutOpen, rcode, killedBy, seen, message_buffer, parsing_errors, cbLog, return_code,
                    timedOut, outcome, response, active_processes, ka >>
    /\ UNCHANGED << error_msg, raised_msg, notOrch >>

\* faulty variant of Classify: stderr is read whatever the exit code is
ClassifyAlwaysReadsStderr(i) ==
    /\ return_code' = [return_code EXCEPT ![i] = Some(rcode[i])]
    /\ pc' = [pc EXCEPT ![i] = "stderr"]
    /\ UNCHANGED << outcome, response, active_processes >>

\* faulty variant of Classify: the result is looked at before the exit code
ClassifyResultFirst(i) ==
    /\ return_code' = [return_code EXCEPT ![i] = Some(rcode[i])]
    /\ IF result[i] # NoneOpt
       THEN Finish(i, "response",
                   Some(_parse_result(result[i][1], message_buffer[i])))
       ELSE IF rcode[i] # 0
       THEN /\ pc' = [pc EXCEPT ![i] = "stderr"]
            /\ UNCHANGED << outcome, response, active_processes >>
       ELSE Finish(i, "ClaudeParsingError", NoneOpt)

\* lines 279-327 once process.wait() has returned: a non-zero code goes on
\* to read stderr, a zero code returns the response or raises
Classify(i) ==
    /\ return_code' = [return_code EXCEPT ![i] = Some(rcode[i])]
    /\ IF rcode[i] # 0
       THEN /\ pc' = [pc EXCEPT ![i] = "stderr"]
            /\ UNCHANGED << outcome, response, active_processes >>
       ELSE IF result[i] = NoneOpt
       THEN Finish(i, "ClaudeParsingError", NoneOpt)
       ELSE Finish(i, "response",
                   Some(_parse_result(result[i][1], message_buffer[i])))

\* the read loop reaches end of stream; process.wait() returns at once
\* when the process has exited and suspends otherwise
ReadEOF(i) ==
    /\ pc[i] = "read"
    /\ ~ stdoutOpen[i]
    /\ IF proc[i] = "running"
       THEN /\ pc' = [pc EXCEPT ![i] = "wait"]
            /\ UNCHANGED << return_code, outcome, response, active_processes >>
       ELSE Classify(i)
    /\ UNCHANGED << hasCb, proc, stdoutOpen, rcode, killedBy, seen, message_buffer, result, parsing_errors, cbLog,
                    cbRaised, timedOut, ka >>
    /\ UNCHANGED << error_msg, raised_msg, notOrch >>

\* line 279: the suspended process.wait() returns
WaitReturns(i) ==
    /\ pc[i] = "wait"
    /\ proc[i] # "running"
    /\ Classify(i)
    /\ UNCHANGED << hasCb, proc, stdoutOpen, rcode, killedBy, seen, message_buffer, result, parsing_errors, cbLog,
                    cbRaised, timedOut, ka >>
    /\ UNCHANGED << error_msg, raised_msg, notOrch >>

\* lines 282-321: stderr has been read and decoded, ClaudeProcessError is
\* raised with the message that the text selects
StderrRead(i, text) ==
    /\ pc[i] = "stderr"
    /\ error_msg' = [error_msg EXCEPT ![i] = Some(text)]
    /\ raised_msg' = [raised_msg EXCEPT ![i] =
                         Some(ProcessErrorMessage(return_code[i][1], text))]
    /\ Finish(i, "ClaudeProcessError", NoneOpt)
    /\ UNCHANGED << hasCb, proc, stdoutOpen, rcode, killedBy, seen, message_buffer, result, parsing_errors, cbLog,
                    cbRaised, return_code, timedOut, ka >>
    /\ UNCHANGED notOrch

(***************************************************************************)
(* Timeout handler of execute_command, integration.py lines 148-162.       *)
(***************************************************************************)
\* wait_for cancels the read task at its await and raises TimeoutError;
\* the handler kills the registered process and awaits its exit
Timeout(i) ==
    /\ pc[i] \in {"read", "callback", "wait", "stderr"}
    /\ timedOut' = [timedOut EXCEPT ![i] = TRUE]
    /\ IF i \notin Registered
       THEN /\ Finish(i, "ClaudeTimeoutError", NoneOpt)
            /\ UNCHANGED killedBy
       ELSE IF proc[i] = "closed"
       THEN /\ Finish(i, "ProcessLookupError", NoneOpt)
            /\ UNCHANGED killedBy
       ELSE IF proc[i] = "exited"
       THEN /\ Finish(i, "ClaudeTimeoutError", NoneOpt)
            /\ UNCHANGED killedBy
       ELSE /\ killedBy' = [killedBy EXCEPT ![i] = @ \cup {"timeout"}]
            /\ pc' = [pc EXCEPT ![i] = "handler_wait"]
            /\ UNCHANGED << outcome, response, active_processes >>
    /\ UNCHANGED << hasCb, proc, stdoutOpen, rcode, seen,
                    message_buffer, result, parsing_errors, cbLog, cbRaised,
                    return_code, ka >>
    /\ UNCHANGED << error_msg, raised_msg, notOrch >>

\* line 152 returns: the killed process has exited; lines 154-162, 172-175
HandlerWaitReturns(i) ==
    /\ pc[i] = "handler_wait"
    /\ proc[i] # "running"
    /\ Finish(i, "ClaudeTimeoutError", NoneOpt)
    /\ UNCHANGED << hasCb, proc, stdoutOpen, rcode, killedBy, seen, message_buffer, result, parsing_errors, cbLog,
                    cbRaised, return_code, timedOut, ka >>
    /\ UNCHANGED << error_msg, raised_msg, notOrch >>

\* the task running execute_command is cancelled from outside while it is
\* suspended: CancelledError is raised at the await, it is not an Exception,
\* so only the finally block of lines 172-175 runs
Cancel(i) ==
    /\ pc[i] \in {"read", "callback", "wait", "stderr", "handler_wait"}
    /\ Finish(i, "CancelledError", NoneOpt)
    /\ UNCHANGED << hasCb, proc, stdoutOpen, rcode, killedBy, seen, message_buffer, result, parsing_errors, cbLog,
                    cbRaised, return_code, timedOut, ka >>
    /\ UNCHANGED << error_msg, raised_msg, notOrch >>

(***************************************************************************)
(* kill_all_processes, integration.py lines 546-562.                       *)
(***************************************************************************)
\* positions after pos of the dict entries that hold a running process;
\* for the others kill() does nothing or raises ProcessLookupError (caught)
\* and wait() returns without suspending
RunningAfter(pos) ==
    {k \in DOMAIN active_processes :
        k > pos /\ active_processes[k] # 0 /\ proc[active_processes[k]] = "running"}

SetMin(S) == CHOOSE x \in S : \A y \in S : x <= y

\* the ids that were registered when kill_all_processes was called
KillAllSnapshot == IF ka.pc = "idle" THEN Registered ELSE ka.snap

\* the for loop from the entry after pos up to its next suspension:
\* RuntimeError when the dict changed size, else kill and await the next
\* running process, else the loop ends and the registry is cleared
KillLoop(pos, used) ==
    IF RegistrySize # used
    THEN /\ ka' = [pc |-> "RuntimeError", pos |-> 0, used |-> 0, cur |-> 0,
                   snap |-> {}]
         /\ UNCHANGED << killedBy, active_processes >>
    ELSE IF RunningAfter(pos) = {}
    THEN /\ ka' = [pc |-> "done", pos |-> 0, used |-> 0, cur |-> 0,
                   snap |-> {}]
         /\ active_processes' = << >>
         /\ UNCHANGED killedBy
    ELSE LET k == SetMin(RunningAfter(pos))
             p == active_processes[k]
         IN  /\ ka' = [pc |-> "wait", pos |-> k, used |-> used, cur |-> p,
                        snap |-> KillAllSnapshot]
             /\ killedBy' = [killedBy EXCEPT ![p] = @ \cup {"kill_all"}]
             /\ UNCHANGED active_processes

\* kill_all_processes is called
KillAllStart ==
    /\ ka.pc = "idle"
    /\ KillLoop(0, RegistrySize)
    /\ UNCHANGED << pc, hasCb, proc, stdoutOpen, rcode, seen,
                    message_buffer, result, parsing_errors, cbLog, cbRaised,
                    return_code, timedOut, outcome, response >>
    /\ UNCHANGED << error_msg, raised_msg, notOrch >>

\* line 555 returns: the awaited process has exited
KillAllResume ==
    /\ ka.pc = "wait"
    /\ proc[ka.cur] # "running"
    /\ KillLoop(ka.pos, ka.used)
    /\ UNCHANGED << pc, hasCb, proc, stdoutOpen, rcode, seen,
                    message_buffer, result, parsing_errors, cbLog, cbRaised,
                    return_code, timedOut, outcome, response >>
    /\ UNCHANGED << error_msg, raised_msg, notOrch >>

(***************************************************************************)
(* SessionManager.get_or_create_session.  session.py is not among the      *)
(* sources; the operation follows section 4.4 and 5 of the specification:  *)
(* under the mutex of the calling user, load the record of session_id and  *)
(* touch it, or else create a record, evict least-recently-used records    *)
(* of the user until the new one fits the cap, and save it.  Each access   *)
(* to the storage collaborator is one step.                                *)
(***************************************************************************)
\* a session_id that no record ever had
NoSuchId == NumCalls + 1

\* storage.get_user_sessions(user_id), in order of creation
UserSessions(u) == SelectSeq(storage, LAMBDA r : r.user = u)

\* ids of the persisted records
StoredIds == {storage[k].id : k \in DOMAIN storage}

\* storage.load_session(session_id): Optional record
load_session(sid) ==
    IF sid \in StoredIds
    THEN Some(storage[CHOOSE k \in DOMAIN storage : storage[k].id = sid])
    ELSE NoneOpt

\* faulty variant of save_session: a record is always added, never replaced
SaveAlwaysAppends(st, rec) == Append(st, rec)

\* storage.save_session(session): insert, or replace the record of that id
save_session(st, rec) ==
    IF \E k \in DOMAIN st : st[k].id = rec.id
    THEN [k \in DOMAIN st |-> IF st[k].id = rec.id THEN rec ELSE st[k]]
    ELSE Append(st, rec)

\* storage.delete_session(session_id)
delete_session(st, sid) == SelectSeq(st, LAMBDA r : r.id # sid)

\* faulty variant of LeastRecentlyUsed: the record used last is evicted
MostRecentlyUsed(live) ==
    live[CHOOSE k \in DOMAIN live :
            \A j \in DOMAIN live :
                \/ live[k].last_used > live[j].last_used
                \/ live[k].last_used = live[j].last_used /\ k >= j]

\* the record to evict: oldest last_used, the earlier created among ties
LeastRecentlyUsed(live) ==
    live[CHOOSE k \in DOMAIN live :
            \A j \in DOMAIN live :
                \/ live[k].last_used < live[j].last_used
                \/ live[k].last_used = live[j].last_used /\ k <= j]

\* faulty variant of MutexFree: calls of one user are not serialised
MutexIgnored(u) == TRUE

\* the per-user mutex is free
MutexFree(u) == lock[u] = 0

\* the session ids user u may pass: none (0), one of the user's own
\* records, persisted or evicted, or an unknown id
OwnIds(u) ==
    {r.id : r \in {x \in {storage[k] : k \in DOMAIN storage} \cup evicted :
                       x.user = u}}
SessionIdArgs(u) == {0, NoSuchId} \cup OwnIds(u)

\* get_or_create_session(user_id, project_path, session_id) is called
GocCall(u, sid) ==
    /\ nStarted < NumCalls
    /\ sid \in SessionIdArgs(u)
    /\ nStarted' = nStarted + 1
    /\ call' = Append(call, [pc |-> "lock", user |-> u, sid |-> sid,
                             rec |-> NoneOpt, ret |-> 0])
    /\ UNCHANGED << storage, now, nextId, lock, evicted, created >>
    /\ UNCHANGED notSess

\* get_or_create_session is called with any session id, also the id of a
\* record of another user
GocCallAny(u, sid) ==
    /\ nStarted < NumCalls
    /\ sid \in {0, NoSuchId} \cup StoredIds
    /\ nStarted' = nStarted + 1
    /\ call' = Append(call, [pc |-> "lock", user |-> u, sid |-> sid,
                             rec |-> NoneOpt, ret |-> 0])
    /\ UNCHANGED << storage, now, nextId, lock, evicted, created >>
    /\ UNCHANGED notSess

\* the call enters the critical section of its user
GocAcquire(c) ==
    /\ c \in DOMAIN call
    /\ call[c].pc = "lock"
    /\ MutexFree(call[c].user)
    /\ lock' = [lock EXCEPT ![call[c].user] = c]
    /\ call' = [call EXCEPT ![c].pc = "load"]
    /\ UNCHANGED << storage, now, nextId, nStarted, evicted, created >>
    /\ UNCHANGED notSess

\* datetime.utcnow(): the previous reading or a later one
ClockReadings == {t \in {now, now + 1} : t <= MaxTime}

\* storage.load_session(session_id) when an id was given: a matching
\* record is touched; otherwise a record with zeroed counters is created
GocLoad(c) ==
    /\ c \in DOMAIN call
    /\ call[c].pc = "load"
    /\ \E t \in ClockReadings : now' = t
    /\ LET found == IF call[c].sid = 0 THEN NoneOpt ELSE load_session(call[c].sid)
       IN  IF found # NoneOpt
           THEN /\ call' = [call EXCEPT ![c].pc = "touch", ![c].rec = found]
                /\ UNCHANGED << nextId, created >>
           ELSE /\ call' = [call EXCEPT
                               ![c].pc = "enforce",
                               ![c].rec = Some([id |-> nextId,
                                                user |-> call[c].user,
                                                last_used |-> now'])]
                /\ nextId' = nextId + 1
                /\ created' = [created EXCEPT ![call[c].user] = @ + 1]
    /\ UNCHANGED << storage, lock, nStarted, evicted >>
    /\ UNCHANGED notSess

\* the matching record gets last_used = now, is saved and returned
GocTouch(c) ==
    /\ c \in DOMAIN call
    /\ call[c].pc = "touch"
    /\ \E t \in ClockReadings : now' = t
    /\ storage' = save_session(storage, [call[c].rec[1] EXCEPT !.last_used = now'])
    /\ call' = [call EXCEPT ![c].pc = "done", ![c].ret = call[c].rec[1].id]
    /\ lock' = [lock EXCEPT ![call[c].user] = 0]
    /\ UNCHANGED << nextId, nStarted, evicted, created >>
    /\ UNCHANGED notSess

\* cap enforcement: while the user's records and the new one exceed the
\* cap, the least recently used persisted record is deleted
GocEvict(c) ==
    /\ c \in DOMAIN call
    /\ call[c].pc = "enforce"
    /\ LET live == UserSessions(call[c].user)
       IN  IF Len(live) + 1 > max_sessions_per_user /\ live # << >>
           THEN /\ storage' = delete_session(storage, LeastRecentlyUsed(live).id)
                /\ evicted' = evicted \cup {LeastRecentlyUsed(live)}
                /\ UNCHANGED call
           ELSE /\ call' = [call EXCEPT ![c].pc = "save"]
                /\ UNCHANGED << storage, evicted >>
    /\ UNCHANGED << now, nextId, lock, nStarted, created >>
    /\ UNCHANGED notSess

\* the new record is saved and returned
GocSave(c) ==
    /\ c \in DOMAIN call
    /\ call[c].pc = "save"
    /\ storage' = save_session(storage, call[c].rec[1])
    /\ call' = [call EXCEPT ![c].pc = "done", ![c].ret = call[c].rec[1].id]
    /\ lock' = [lock EXCEPT ![call[c].user] = 0]
    /\ UNCHANGED << now, nextId, nStarted, evicted, created >>
    /\ UNCHANGED notSess

(***************************************************************************)
(* _build_command, integration.py lines 177-215.                           *)
(***************************************************************************)
\* str(n) for a natural number
DigitChar(d) ==
    CASE d = 0 -> "0" [] d = 1 -> "1" [] d = 2 -> "2" [] d = 3 -> "3"
      [] d = 4 -> "4" [] d = 5 -> "5" [] d = 6 -> "6" [] d = 7 -> "7"
      [] d = 8 -> "8" [] d = 9 -> "9"

RECURSIVE Str(_)
Str(n) == IF n < 10 THEN DigitChar(n) ELSE Str(n \div 10) \o DigitChar(n % 10)

\* truth value of an Optional[str]: neither None nor empty
Truthy(opt) == opt # NoneOpt /\ opt[1] # ""

\* faulty variant of ModeArguments: a supplied session id is resumed whenever there
\* is a prompt, whether or not continuation was requested
ModeArgumentsResumeAlways(prompt, session_id, continue_session) ==
    IF continue_session /\ prompt = ""
    THEN << "--continue" >>
         \o (IF Truthy(session_id) THEN << "--resume", session_id[1] >> ELSE << >>)
    ELSE IF Truthy(session_id) /\ prompt # ""
    THEN << "--resume", session_id[1], "-p", prompt >>
    ELSE IF prompt # ""
    THEN << "-p", prompt >>
    ELSE << "-p", "" >>

\* lines 183-196: the arguments that select the mode
ModeArguments(prompt, session_id, continue_session) ==
    IF continue_session /\ prompt = ""
    THEN << "--continue" >>
         \o (IF Truthy(session_id) THEN << "--resume", session_id[1] >> ELSE << >>)
    ELSE IF Truthy(session_id) /\ prompt # "" /\ continue_session
    THEN << "--resume", session_id[1], "-p", prompt >>
    ELSE IF prompt # ""
    THEN << "-p", prompt >>
    ELSE << "-p", "" >>

\* faulty variant of CommonArguments: --verbose is left out
CommonArgumentsNoVerbose(config) ==
    << "--output-format", "stream-json" >>
    \o << "--max-turns", Str(config.claude_max_turns) >>
    \o (IF config.claude_allowed_tools # NoneOpt
           /\ config.claude_allowed_tools[1] # << >>
        THEN << "--allowedTools", Join(",", config.claude_allowed_tools[1]) >>
        ELSE << >>)

\* lines 198-212: the arguments every command gets
CommonArguments(config) ==
    << "--output-format", "stream-json" >>
    \o << "--verbose" >>
    \o << "--max-turns", Str(config.claude_max_turns) >>
    \o (IF config.claude_allowed_tools # NoneOpt
           /\ config.claude_allowed_tools[1] # << >>
        THEN << "--allowedTools", Join(",", config.claude_allowed_tools[1]) >>
        ELSE << >>)

_build_command(config, prompt, session_id, continue_session) ==
    << IF Truthy(config.claude_binary_path)
       THEN config.claude_binary_path[1] ELSE "claude" >>
    \o ModeArguments(prompt, session_id, continue_session)
    \o CommonArguments(config)

\* configurations and arguments the function is applied to
Configs ==
    [claude_binary_path : {NoneOpt, Some("/opt/claude")},
     claude_max_turns : {1, 10, 25},
     claude_allowed_tools : {NoneOpt, Some(<< >>), Some(<< "Read" >>),
                             Some(<< "Read", "Bash" >>)}]

CmdInputs ==
    [config : Configs,
     prompt : {"", "hello", "--resume"},
     session_id : {NoneOpt, Some(""), Some("abc")},
     continue_session : BOOLEAN]

\* _build_command is applied to the arguments
BuildCommand ==
    /\ cmdOut = NoneOpt
    /\ cmdOut' = Some(_build_command(cmdIn.config, cmdIn.prompt,
                                     cmdIn.session_id, cmdIn.continue_session))
    /\ UNCHANGED cmdIn
    /\ UNCHANGED notCmd

(***************************************************************************)
(* ToolMonitor, monitor.py.  A command is a sequence of words separated by *)
(* blanks; a path is a sequence of components relative to the working      *)
(* directory, the empty sequence standing for a missing or empty path.     *)
(***************************************************************************)
\* lines 81-88 and 113
FileTools == {"create_file", "edit_file", "read_file", "Write", "Edit", "Read"}
ShellTools == {"bash", "shell", "Bash"}

\* lines 117-132; the last pattern, a single backquote, is written out
dangerous_patterns ==
    << "rm -rf", "sudo", "chmod 777", "curl", "wget", "nc ", "netcat",
       ">", ">>", "|", "&", ";", "$(", "backquote" >>

\* str.lower() on the words of the commands
LowerWord(w) == IF w = "SUDO" THEN "sudo" ELSE w

\* line 135: pattern in command.lower()
PatternIn(pattern, command) ==
    \E k \in DOMAIN command :
        LET w == LowerWord(command[k])
        IN  \/ w = pattern
            \/ w = ">>" /\ pattern = ">"
            \/ w = "nc" /\ pattern = "nc " /\ k < Len(command)

\* faulty variant of FirstPattern: the last pattern of the list that the
\* command contains
LastPattern(command) ==
    LET hits == {k \in DOMAIN dangerous_patterns :
                    PatternIn(dangerous_patterns[k], command)}
    IN  IF hits = {} THEN NoneOpt
        ELSE Some(dangerous_patterns[CHOOSE k \in hits : \A j \in hits : k >= j])

\* lines 134-135: the first pattern of the list that the command contains
FirstPattern(command) ==
    LET hits == {k \in DOMAIN dangerous_patterns :
                    PatternIn(dangerous_patterns[k], command)}
    IN  IF hits = {} THEN NoneOpt
        ELSE Some(dangerous_patterns[CHOOSE k \in hits : \A j \in hits : k <= j])

\* truth value of an Optional[List[str]] setting: neither None nor empty
ListConfigured(opt) == opt # NoneOpt /\ opt[1] # << >>

InList(x, list) == \E k \in DOMAIN list : list[k] = x

\* the directory level a path ends at, or -1 once it has left the working
\* directory
RECURSIVE LevelAfter(_, _)
LevelAfter(path, level) ==
    IF level < 0 \/ path = << >> THEN level
    ELSE LevelAfter(Tail(path), IF path[1] = ".." THEN level - 1 ELSE level + 1)

\* SecurityValidator.validate_path(file_path, working_directory)
validate_path(file_path) ==
    IF LevelAfter(file_path, 0) < 0
    THEN [valid |-> FALSE, error |-> "Path outside working directory"]
    ELSE [valid |-> TRUE, error |-> ""]

\* the dict appended to security_violations
Violation(type, tool_name, user_id, value, note) ==
    [type |-> type, tool_name |-> tool_name, user_id |-> user_id,
     value |-> value, note |-> note]

Denied(reason, violation) ==
    [allowed |-> FALSE, reason |-> reason, violation |-> violation]

Allowed == [allowed |-> TRUE, reason |-> "None", violation |-> NoneOpt]

\* lines 112-146
CheckShell(tool_name, tool_input, user_id) ==
    LET command == Get(tool_input, "command", << >>)
        hit == FirstPattern(command)
    IN  IF tool_name \in ShellTools /\ hit # NoneOpt
        THEN Denied("Dangerous command pattern detected: " \o hit[1],
                    Some(Violation("dangerous_command", tool_name, user_id,
                                   command, hit[1])))
        ELSE Allowed

\* lines 80-110, then the shell check
CheckFile(config, tool_name, tool_input, user_id) ==
    LET p1 == Get(tool_input, "path", << >>)
        file_path == IF p1 # << >> THEN p1 ELSE Get(tool_input, "file_path", << >>)
        v == validate_path(file_path)
    IN  IF tool_name \in FileTools /\ file_path = << >>
        THEN Denied("File path required", NoneOpt)
        ELSE IF tool_name \in FileTools /\ config.security_validator /\ ~ v.valid
        THEN Denied(v.error,
                    Some(Violation("invalid_file_path", tool_name, user_id,
                                   file_path, v.error)))
        ELSE CheckShell(tool_name, tool_input, user_id)

\* lines 64-78, then the file check
CheckDisallowed(config, tool_name, tool_input, user_id) ==
    IF /\ ListConfigured(config.claude_disallowed_tools)
       /\ InList(tool_name, config.claude_disallowed_tools[1])
    THEN Denied("Tool explicitly disallowed: " \o tool_name,
                Some(Violation("explicitly_disallowed_tool", tool_name, user_id,
                               << >>, "")))
    ELSE CheckFile(config, tool_name, tool_input, user_id)

\* faulty variant of Decide: the deny-list is consulted before the allow-list
DecideDenyListFirst(config, tool_name, tool_input, user_id) ==
    LET d == CheckDisallowed(config, tool_name, tool_input, user_id)
    IN  IF d.allowed = FALSE /\ d.violation # NoneOpt
           /\ d.violation[1].type = "explicitly_disallowed_tool"
        THEN d
        ELSE IF /\ ListConfigured(config.claude_allowed_tools)
                /\ ~ InList(tool_name, config.claude_allowed_tools[1])
        THEN Denied("Tool not allowed: " \o tool_name,
                    Some(Violation("disallowed_tool", tool_name, user_id, << >>, "")))
        ELSE d

\* lines 48-152: what validate_tool_call returns and the violation it records
Decide(config, tool_name, tool_input, user_id) ==
    IF /\ ListConfigured(config.claude_allowed_tools)
       /\ ~ InList(tool_name, config.claude_allowed_tools[1])
    THEN Denied("Tool not allowed: " \o tool_name,
                Some(Violation("disallowed_tool", tool_name, user_id, << >>, "")))
    ELSE CheckDisallowed(config, tool_name, tool_input, user_id)

\* tool names and the calls that are evaluated
ToolNames == {"Read", "Bash", "shell", "WebFetch"}

CallInputs ==
    << << "Read", [limit |-> << >>] >>,
       << "Read", [path |-> << "src", "a.py" >>] >>,
       << "Read", [file_path |-> << "src", "..", "..", "etc" >>] >>,
       << "Bash", [command |-> << "ls" >>] >>,
       << "Bash", [command |-> << "SUDO", "rm -rf", "/" >>] >>,
       << "shell", [command |-> << "cat", ">>", "log" >>] >>,
       << "WebFetch", [url |-> << >>] >> >>

MonConfigs ==
    [claude_allowed_tools : {NoneOpt, Some(<< >>), Some(<< "Read", "Bash" >>),
                             Some(<< "Bash", "WebFetch" >>)},
     claude_disallowed_tools : {NoneOpt, Some(<< "Bash" >>),
                                Some(<< "Read", "WebFetch" >>)},
     security_validator : BOOLEAN]

\* lines 24-31: ToolMonitor.__init__
InitMon ==
    /\ tool_usage = [t \in ToolNames |-> 0]
    /\ security_violations = << >>
    /\ heap = << >>
    /\ snapshot = NoneOpt
    /\ monRet = NoneOpt
    /\ nEval = 0
    /\ sinceReset = 0

RECURSIVE SumOver(_, _)
SumOver(f, S) ==
    IF S = {} THEN 0
    ELSE LET x == CHOOSE y \in S : TRUE IN f[x] + SumOver(f, S \ {x})

\* lines 154-161: a tool name is a key of tool_usage once it was counted
get_tool_stats ==
    [total_calls |-> SumOver(tool_usage, ToolNames),
     unique_tools |-> Cardinality({t \in ToolNames : tool_usage[t] > 0}),
     security_violations |-> Len(security_violations)]

\* self.security_violations.append(violation), where there is one
Record(d) ==
    IF d.violation = NoneOpt
    THEN UNCHANGED << heap, security_violations >>
    ELSE /\ heap' = Append(heap, d.violation[1])
         /\ security_violations' = Append(security_violations, Len(heap) + 1)

\* line 149, reached only by the calls that are allowed
Track(d, tool_name) ==
    tool_usage' = IF d.allowed
                  THEN [tool_usage EXCEPT ![tool_name] = @ + 1]
                  ELSE tool_usage

\* validate_tool_call(tool_name, tool_input, working_directory, user_id)
ValidateToolCall(k, user_id) ==
    /\ nEval < MaxEvals
    /\ LET tool_name == CallInputs[k][1]
           tool_input == CallInputs[k][2]
           d == Decide(mon_config, tool_name, tool_input, user_id)
       IN  /\ Record(d)
           /\ Track(d, tool_name)
           /\ monRet' = Some([allowed |-> d.allowed, reason |-> d.reason,
                              tool_name |-> tool_name, tool_input |-> tool_input,
                              user_id |-> user_id])
    /\ nEval' = nEval + 1
    /\ sinceReset' = sinceReset + 1
    /\ UNCHANGED << mon_config, snapshot >>
    /\ UNCHANGED notMon

\* lines 163-165: a copy of the list, holding the same dicts
GetSecurityViolations ==
    /\ snapshot' = Some(security_violations)
    /\ UNCHANGED << mon_config, tool_usage, security_violations, heap, monRet,
                    nEval, sinceReset >>
    /\ UNCHANGED notMon

\* the caller changes a dict of the list it was handed
CallerEditsEntry(k) ==
    /\ snapshot # NoneOpt
    /\ k \in DOMAIN snapshot[1]
    /\ heap[snapshot[1][k]].type # "edited"
    /\ heap' = [heap EXCEPT ![snapshot[1][k]].type = "edited"]
    /\ UNCHANGED << mon_config, tool_usage, security_violations, snapshot,
                    monRet, nEval, sinceReset >>
    /\ UNCHANGED notMon

\* the caller removes an element from the list it was handed
CallerEditsList ==
    /\ snapshot # NoneOpt
    /\ snapshot[1] # << >>
    /\ snapshot' = Some(Tail(snapshot[1]))
    /\ UNCHANGED << mon_config, tool_usage, security_violations, heap, monRet,
                    nEval, sinceReset >>
    /\ UNCHANGED notMon

\* lines 167-171
ResetStats ==
    /\ tool_usage' = [t \in ToolNames |-> 0]
    /\ security_violations' = << >>
    /\ sinceReset' = 0
    /\ UNCHANGED << mon_config, heap, snapshot, monRet, nEval >>
    /\ UNCHANGED notMon

(***************************************************************************)
(* record_usage(session, run_result): the usage of a run is added to the   *)
(* session and the session is persisted.  Costs are counted in whole       *)
(* units (cents).                                                          *)
(***************************************************************************)
MaxRuns == 3

\* names of the tools of a run result, in the order they were used; a name
\* can occur more than once
RunTools == {<< >>, << "Read", "Write" >>, << "Write", "Read", "Read" >>}

\* run results: cost 0.05 and num_turns 2 as in test_update_usage
RunResults == [cost : {0, 5}, num_turns : {1, 2}, tools_used : RunTools]

\* faulty variant of UnionInto: every name of the run is appended
UnionIntoAppendsAll(list, names) == list \o names

\* union in the tool names not seen before, keeping the order of first use
RECURSIVE UnionInto(_, _)
UnionInto(list, names) ==
    IF names = << >> THEN list
    ELSE UnionInto(IF InList(Head(names), list) THEN list
                   ELSE Append(list, Head(names)),
                   Tail(names))

\* a ClaudeSession as it is constructed
FreshSession(sid, t) ==
    [id |-> sid, last_used |-> t, total_cost |-> 0, total_turns |-> 0,
     message_count |-> 0, tools_used |-> << >>]

\* session.update_usage(response) at time t
update_usage(session, run_result, t) ==
    [session EXCEPT !.total_cost = @ + run_result.cost,
                    !.total_turns = @ + run_result.num_turns,
                    !.message_count = @ + 1,
                    !.tools_used = UnionInto(@, run_result.tools_used),
                    !.last_used = t]

\* a session that was created and persisted, next to the record of another
InitUsage ==
    /\ usage_session = FreshSession(1, 0)
    /\ usage_storage \in {<< FreshSession(1, 0) >>,
                          << FreshSession(2, 0), FreshSession(1, 0) >>}
    /\ runs = << >>

\* record_usage(session, run_result), called when the clock shows t
RecordUsage(run_result, t) ==
    /\ Len(runs) < MaxRuns
    /\ t >= usage_session.last_used
    /\ usage_session' = update_usage(usage_session, run_result, t)
    /\ usage_storage' = save_session(usage_storage, usage_session')
    /\ runs' = Append(runs, run_result)
    /\ UNCHANGED notUsage


(***************************************************************************)
(* ClaudeSession.is_expired(ttl_hours).  The clock counts units of which   *)
(* UnitsPerHour make an hour, so that ages between whole hours occur.      *)
(***************************************************************************)
UnitsPerHour == 2
MaxClock == 6
TtlHours == {0, 1, 2}

\* faulty variant of is_expired: a session of age ttl_hours is expired
is_expired_at_ttl(last_used, ttl_hours, t) ==
    t - last_used >= ttl_hours * UnitsPerHour

\* now - last_used > timedelta(hours = ttl_hours)
is_expired(last_used, ttl_hours, t) ==
    t - last_used > ttl_hours * UnitsPerHour

\* time passes
ClockTick ==
    /\ exp_now < MaxClock
    /\ exp_now' = exp_now + 1
    /\ UNCHANGED << exp_last_used, exp_ret >>
    /\ UNCHANGED notExpiry

\* the session is used: last_used = now
TouchSession ==
    /\ exp_last_used # exp_now
    /\ exp_last_used' = exp_now
    /\ UNCHANGED << exp_now, exp_ret >>
    /\ UNCHANGED notExpiry

\* session.is_expired(ttl_hours)
IsExpired(ttl_hours) ==
    /\ exp_ret' = Some([ttl_hours |-> ttl_hours, now |-> exp_now,
                        last_used |-> exp_last_used,
                        expired |-> is_expired(exp_last_used, ttl_hours, exp_now)])
    /\ UNCHANGED << exp_last_used, exp_now >>
    /\ UNCHANGED notExpiry


(***************************************************************************)
(* ClaudeSDKManager.execute_command, sdk_integration.py lines 71-148, the  *)
(* facade's run_command and shutdown, and run_application of main.py.      *)
(***************************************************************************)
MaxQueries == 3

\* str(uuid.uuid4()): the n-th value drawn
Uuid4 == << "uuid-1", "uuid-2", "uuid-3", "uuid-4" >>

\* session ids the external tool reports in its ResultMessage
ReportedIds == {"test-session", "tool-2"}

\* what the SDK query does: it finishes with a ResultMessage that carries a
\* session id and a cost, it finishes without a ResultMessage, it does not
\* finish within claude_timeout_seconds, or it raises
QueryRuns ==
    [kind : {"finished"}, reported : {Some(r) : r \in ReportedIds}, cost : {5}]
        \cup {[kind |-> "finished", reported |-> NoneOpt, cost |-> 0],
              [kind |-> "hangs", reported |-> NoneOpt, cost |-> 0],
              [kind |-> "raises", reported |-> NoneOpt, cost |-> 0]}

\* faulty variant of SdkFailure: every failure is a ClaudeProcessError
SdkFailureAlwaysProcessError(run) ==
    IF run.kind = "finished" THEN "none" ELSE "ClaudeProcessError"

\* lines 103-108 and 137-148: the exception execute_command raises
SdkFailure(run) ==
    IF run.kind = "hangs" THEN "ClaudeTimeoutError"
    ELSE IF run.kind = "raises" THEN "ClaudeProcessError"
    ELSE "none"

\* line 123: final_session_id = session_id or str(uuid.uuid4())
final_session_id(session_id, n) ==
    IF session_id # NoneOpt /\ session_id[1] # "" THEN session_id[1]
    ELSE Uuid4[n + 1]

\* lines 89-148: outcome, response and active_sessions after the call
execute_command(sessions, session_id, run, n) ==
    IF SdkFailure(run) # "none"
    THEN [outcome |-> SdkFailure(run), response |-> NoneOpt,
          sessions |-> sessions, drawn |-> n]
    ELSE LET id == final_session_id(session_id, n)
         IN  [outcome |-> "response",
              response |-> Some([session_id |-> id, cost |-> run.cost,
                                 num_turns |-> 1, tools_used |-> << >>]),
              sessions |-> sessions \cup {id},
              drawn |-> IF id = Uuid4[n + 1] THEN n + 1 ELSE n]

\* session ids a caller can pass: none, the empty string, an id the tool
\* reported, or an id an earlier response carried
KnownIds == {NoneOpt, Some("")} \cup {Some(r) : r \in ReportedIds}
                \cup {Some(Uuid4[k]) : k \in 1..uuids}
SessionIds == {NoneOpt, Some("")} \cup {Some(r) : r \in ReportedIds}
                  \cup {Some(Uuid4[k]) : k \in DOMAIN Uuid4}

\* what the call is recorded as
SdkRecord(session_id, run, r) ==
    Some([session_id |-> session_id, run |-> run, outcome |-> r.outcome,
          response |-> r.response, before |-> active_sessions])

\* ClaudeSDKManager.execute_command called directly
ExecuteCommand(session_id, run) ==
    /\ app_pc = "idle"
    /\ tool_runs < MaxQueries
    /\ session_id \in KnownIds
    /\ LET r == execute_command(active_sessions, session_id, run, uuids)
       IN  /\ active_sessions' = r.sessions
           /\ uuids' = r.drawn
           /\ sdk_ret' = SdkRecord(session_id, run, r)
    /\ tool_runs' = tool_runs + 1
    /\ UNCHANGED << fac_session, session_cache, fac_ret, app_pc, storage_closed >>
    /\ UNCHANGED notApp

\* faulty variant of QueriesPerRun: a failed query is started once more
QueriesPerRunWithRetry(r) == IF r.outcome = "response" THEN 1 ELSE 2

\* run_command delegates once to the orchestrator
QueriesPerRun(r) == 1

\* run_command(prompt, working_directory, user_id, session_id): resolve or
\* create the session, delegate, record the usage of a completed run,
\* return the result; a failure propagates
RunCommand(session_id, run) ==
    /\ app_pc = "idle"
    /\ tool_runs < MaxQueries
    /\ session_id \in KnownIds
    /\ LET session == IF fac_session = NoneOpt THEN FreshSession(1, 0)
                      ELSE fac_session[1]
           r == execute_command(active_sessions, session_id, run, uuids)
       IN  /\ active_sessions' = r.sessions
           /\ uuids' = r.drawn
           /\ sdk_ret' = SdkRecord(session_id, run, r)
           /\ tool_runs' = tool_runs + QueriesPerRun(r)
           /\ session_cache' = session_cache \cup {session.id}
           /\ fac_session' =
                 IF r.outcome = "response"
                 THEN Some(update_usage(session, r.response[1], 0))
                 ELSE Some(session)
           /\ fac_ret' = Some([outcome |-> r.outcome, response |-> r.response,
                               started |-> tool_runs])
    /\ UNCHANGED << app_pc, storage_closed >>
    /\ UNCHANGED notApp

\* main.py lines 193-219: a signal arrives or the bot task ends, and
\* run_application enters its finally block
ShutdownBegins ==
    /\ app_pc = "idle"
    /\ app_pc' = "stop_bot"
    /\ UNCHANGED << active_sessions, uuids, sdk_ret, tool_runs, fac_session,
                    session_cache, fac_ret, storage_closed >>
    /\ UNCHANGED notApp

\* main.py lines 221-226: await bot.stop(); an exception it raises is
\* caught by the except of line 225, which ends the shutdown
BotStop(raises) ==
    /\ app_pc = "stop_bot"
    /\ app_pc' = IF raises THEN "complete" ELSE "shutdown"
    /\ UNCHANGED << active_sessions, uuids, sdk_ret, tool_runs, fac_session,
                    session_cache, fac_ret, storage_closed >>
    /\ UNCHANGED notApp

\* main.py line 223: await claude_integration.shutdown(), which calls
\* kill_all_processes of the manager (sdk_integration.py lines 255-258) and
\* clears the session cache
FacadeShutdown ==
    /\ app_pc = "shutdown"
    /\ active_sessions' = {}
    /\ session_cache' = {}
    /\ app_pc' = "close"
    /\ UNCHANGED << uuids, sdk_ret, tool_runs, fac_session, fac_ret,
                    storage_closed >>
    /\ UNCHANGED notApp

\* main.py lines 224-228: await storage.close()
StorageClose ==
    /\ app_pc = "close"
    /\ storage_closed' = TRUE
    /\ app_pc' = "complete"
    /\ UNCHANGED << active_sessions, uuids, sdk_ret, tool_runs, fac_session,
                    session_cache, fac_ret >>
    /\ UNCHANGED notApp


(***************************************************************************)
(* ResponseFormatter, parser.py lines 258-338.  A text is a sequence of    *)
(* characters; "nl" is the line break and "bq" the backquote.              *)
(***************************************************************************)
MaxContent == 5
MaxMessageLength == 3

Chars == {"A", " ", "nl", "bq"}
Whitespace == {" ", "nl"}

\* str.rstrip() and str.strip()
RECURSIVE RStrip(_)
RStrip(text) ==
    IF text # << >> /\ text[Len(text)] \in Whitespace
    THEN RStrip(SubSeq(text, 1, Len(text) - 1))
    ELSE text
RECURSIVE LStrip(_)
LStrip(text) ==
    IF text # << >> /\ text[1] \in Whitespace THEN LStrip(Tail(text)) ELSE text
Strip(text) == LStrip(RStrip(text))

\* text.split("\n")
RECURSIVE SplitLines(_, _)
SplitLines(text, line) ==
    IF text = << >> THEN << line >>
    ELSE IF text[1] = "nl" THEN << line >> \o SplitLines(Tail(text), << >>)
    ELSE SplitLines(Tail(text), Append(line, text[1]))

\* line 297: line.strip().startswith of three backquotes
StartsWithFence(line) ==
    LET t == Strip(line)
    IN  Len(t) >= 3 /\ t[1] = "bq" /\ t[2] = "bq" /\ t[3] = "bq"

\* lines 295-316: the loop over the lines and the final part
RECURSIVE SplitParts(_, _, _, _, _)
SplitParts(lines, parts, current_part, in_code_block, maxlen) ==
    IF lines = << >>
    THEN IF Strip(current_part) # << >>
         THEN Append(parts, RStrip(current_part)) ELSE parts
    ELSE LET line == lines[1]
             in_code == IF StartsWithFence(line) THEN ~ in_code_block
                        ELSE in_code_block
             line_with_newline == Append(line, "nl")
         IN  IF /\ Len(current_part \o line_with_newline) > maxlen
                /\ ~ in_code
                /\ Strip(current_part) # << >>
             THEN SplitParts(Tail(lines), Append(parts, RStrip(current_part)),
                             line_with_newline, in_code, maxlen)
             ELSE SplitParts(Tail(lines), parts,
                             current_part \o line_with_newline, in_code, maxlen)

\* _split_preserving_code_blocks(text)
_split_preserving_code_blocks(text, maxlen) ==
    SplitParts(SplitLines(text, << >>), << >>, << >>, FALSE, maxlen)

\* faulty variant of _split_long_text: the character that does not fit is
\* dropped
SplitLongTextDropsChar(text, maxlen) ==
    [k \in 1..((Len(text) + maxlen) \div (maxlen + 1)) |->
        SubSeq(text, (k - 1) * (maxlen + 1) + 1,
               IF k * (maxlen + 1) - 1 <= Len(text)
               THEN k * (maxlen + 1) - 1 ELSE Len(text))]

\* lines 323-338: the loop over the characters and the final part
RECURSIVE SplitChars(_, _, _, _)
SplitChars(text, parts, current, maxlen) ==
    IF text = << >>
    THEN IF current # << >> THEN Append(parts, current) ELSE parts
    ELSE IF Len(current) + 1 > maxlen
         THEN IF current # << >>
              THEN SplitChars(Tail(text), Append(parts, current),
                              << text[1] >>, maxlen)
              ELSE SplitChars(Tail(text), Append(parts, << text[1] >>),
                              << >>, maxlen)
         ELSE SplitChars(Tail(text), parts, Append(current, text[1]), maxlen)

\* _split_long_text(text)
_split_long_text(text, maxlen) == SplitChars(text, << >>, << >>, maxlen)

\* the two fixed messages of lines 268 and 283
EmptyResponse ==
    << "_", "(", "E", "m", "p", "t", "y", " ", "r", "e", "s", "p", "o", "n",
       "s", "e", ")", "_" >>
NoContent ==
    << "_", "(", "N", "o", " ", "c", "o", "n", "t", "e", "n", "t", " ", "t",
       "o", " ", "d", "i", "s", "p", "l", "a", "y", ")", "_" >>

\* lines 273-279: messages of the parts
RECURSIVE MessagesOf(_, _)
MessagesOf(parts, maxlen) ==
    IF parts = << >> THEN << >>
    ELSE (IF Len(parts[1]) <= maxlen THEN << parts[1] >>
          ELSE _split_long_text(parts[1], maxlen))
         \o MessagesOf(Tail(parts), maxlen)

\* format_response(content) of a formatter with max_message_length maxlen
format_response(content, maxlen) ==
    IF Strip(content) = << >> THEN << EmptyResponse >>
    ELSE LET messages ==
                 MessagesOf(_split_preserving_code_blocks(content, maxlen), maxlen)
         IN  IF messages = << >> THEN << NoContent >> ELSE messages

\* the texts of up to MaxContent characters
Contents == UNION {[1..n -> Chars] : n \in 0..MaxContent}

FormatInputs == [content : Contents, max_message_length : 1..MaxMessageLength]

\* texts made of whole lines: a fence line, short and long text lines and
\* the empty line, joined by line breaks
MaxFenceLines == 4
MaxFenceLength == 10
FenceLine == << "bq", "bq", "bq" >>
FenceLines == {FenceLine, << "A" >>, << "A", "A", "A", "A" >>, << >>}

\* "\n".join(lines)
RECURSIVE JoinLines(_)
JoinLines(lines) ==
    IF lines = << >> THEN << >>
    ELSE IF Len(lines) = 1 THEN lines[1]
    ELSE lines[1] \o << "nl" >> \o JoinLines(Tail(lines))

FenceContents ==
    {JoinLines(ls) : ls \in UNION {[1..n -> FenceLines] : n \in 1..MaxFenceLines}}

FenceInputs == [content : FenceContents, max_message_length : 1..MaxFenceLength]

\* ResponseFormatter(max_message_length).format_response(content)
FormatResponse ==
    /\ fmtOut = NoneOpt
    /\ fmtOut' = Some(format_response(fmtIn.content, fmtIn.max_message_length))
    /\ UNCHANGED fmtIn
    /\ UNCHANGED notFmt


(***************************************************************************)
(* _read_stream_bounded, integration.py lines 337-355.  A stream is a      *)
(* sequence of bytes: a letter, a blank, the line feed, and the two bytes  *)
(* 0xC3 0xA9 that encode one character in UTF-8.                           *)
(***************************************************************************)
MaxStream == 5
streaming_buffer_size == 3
Bytes == {"a", " ", "nl", "0xC3", "0xA9"}
Streams == UNION {[1..n -> Bytes] : n \in 0..MaxStream}

\* bytes.decode("utf-8", errors="replace"): a lead byte with its
\* continuation byte is one character, a lead byte without one and a
\* continuation byte on its own are each replaced by U+FFFD
RECURSIVE Decode(_)
Decode(bytes) ==
    IF bytes = << >> THEN << >>
    ELSE IF bytes[1] = "0xC3" /\ Len(bytes) >= 2 /\ bytes[2] = "0xA9"
    THEN << "e-acute" >> \o Decode(SubSeq(bytes, 3, Len(bytes)))
    ELSE IF bytes[1] \in {"0xC3", "0xA9"}
    THEN << "U+FFFD" >> \o Decode(Tail(bytes))
    ELSE << bytes[1] >> \o Decode(Tail(bytes))

\* position of the first line feed of a buffer that has one
FirstNewline(buf) ==
    CHOOSE k \in DOMAIN buf : buf[k] = "nl" /\ \A j \in 1..(k - 1) : buf[j] # "nl"

HasNewline(buf) == \E k \in DOMAIN buf : buf[k] = "nl"

\* faulty variant of TakeLines: an if in place of the while, one line is
\* taken per chunk
TakeOneLine(buf) ==
    IF ~ HasNewline(buf) THEN [lines |-> << >>, rest |-> buf]
    ELSE LET k == FirstNewline(buf)
         IN  [lines |-> << Strip(Decode(SubSeq(buf, 1, k - 1))) >>,
              rest |-> SubSeq(buf, k + 1, Len(buf))]

\* lines 349-351: while a line feed is in the buffer, split at the first
\* one and yield the decoded, stripped line; what is left stays buffered
RECURSIVE TakeLines(_)
TakeLines(buf) ==
    IF ~ HasNewline(buf) THEN [lines |-> << >>, rest |-> buf]
    ELSE LET k == FirstNewline(buf)
             more == TakeLines(SubSeq(buf, k + 1, Len(buf)))
         IN  [lines |-> << Strip(Decode(SubSeq(buf, 1, k - 1))) >> \o more.lines,
              rest |-> more.rest]

RECURSIVE SumSeq(_)
SumSeq(q) == IF q = << >> THEN 0 ELSE q[1] + SumSeq(Tail(q))

\* number of bytes read so far
StreamPos == SumSeq(chunks)

\* lines 342-351: stream.read returns n bytes, at most
\* streaming_buffer_size; they are added to the buffer and the complete
\* lines are yielded
StreamRead(n) ==
    /\ stream_pc = "reading"
    /\ StreamPos + n <= Len(stream)
    /\ LET chunk == SubSeq(stream, StreamPos + 1, StreamPos + n)
           taken == TakeLines(buffer \o chunk)
       IN  /\ yielded' = yielded \o taken.lines
           /\ buffer' = taken.rest
    /\ chunks' = Append(chunks, n)
    /\ UNCHANGED << stream, stream_pc >>
    /\ UNCHANGED notStream

\* lines 343-344 and 353-355: stream.read returns no bytes at end of
\* stream; what is buffered is yielded if it is not empty
StreamEnd ==
    /\ stream_pc = "reading"
    /\ StreamPos = Len(stream)
    /\ yielded' = IF buffer # << >> THEN Append(yielded, Strip(Decode(buffer)))
                   ELSE yielded
    /\ buffer' = << >>
    /\ stream_pc' = "done"
    /\ UNCHANGED << stream, chunks >>
    /\ UNCHANGED notStream

(***************************************************************************)
(* Specifications.                                                         *)
(***************************************************************************)
ExitCodes == {0, 1}

NextOrch(I, L, maxLines, Cbs, E) ==
    \/ \E i \in I, cb \in Cbs : Call(i, cb)
    \/ \E i \in I : StartProcess(i)
    \/ \E i \in I : StartFails(i)
    \/ \E i \in I : ProcCloseStdout(i)
    \/ \E i \in I, code \in ExitCodes : ProcExit(i, code)
    \/ \E i \in I : TransportClose(i)
    \/ \E i \in I, line \in L : ReadLine(i, line, maxLines)
    \/ \E i \in I, raises \in BOOLEAN : CallbackReturns(i, raises)
    \/ \E i \in I : ReadEOF(i)
    \/ \E i \in I : WaitReturns(i)
    \/ \E i \in I, text \in E : StderrRead(i, text)
    \/ \E i \in I : Timeout(i)
    \/ \E i \in I : HandlerWaitReturns(i)
    \/ KillAllStart
    \/ KillAllResume

\* the variables of the other components keep their initial values
IdleOrch ==
    /\ InitOrch({})
IdleSess ==
    /\ storage = << >>
    /\ now = 0
    /\ nextId = 1
    /\ lock = [u \in Users |-> 0]
    /\ call = << >>
    /\ nStarted = 0
    /\ evicted = {}
    /\ created = [u \in Users |-> 0]
IdleCmd ==
    /\ cmdIn = << >>
    /\ cmdOut = NoneOpt
IdleMon ==
    /\ mon_config = << >>
    /\ InitMon
IdleUsage ==
    /\ usage_session = << >>
    /\ usage_storage = << >>
    /\ runs = << >>
IdleExpiry ==
    /\ exp_last_used = 0
    /\ exp_now = 0
    /\ exp_ret = NoneOpt
IdleApp ==
    /\ active_sessions = {}
    /\ uuids = 0
    /\ sdk_ret = NoneOpt
    /\ tool_runs = 0
    /\ fac_session = NoneOpt
    /\ session_cache = {}
    /\ fac_ret = NoneOpt
    /\ app_pc = "idle"
    /\ storage_closed = FALSE
IdleFmt ==
    /\ fmtIn = << >>
    /\ fmtOut = NoneOpt
IdleStream ==
    /\ stream = << >>
    /\ chunks = << >>
    /\ buffer = << >>
    /\ yielded = << >>
    /\ stream_pc = "idle"

\* several concurrent invocations, short streams of well-formed lines,
\* every invocation with a stream callback
Init == InitOrch(Invocations) /\ IdleSess /\ IdleCmd /\ IdleMon /\ IdleUsage /\ IdleExpiry /\ IdleApp /\ IdleFmt /\ IdleStream
Next == NextOrch(Invocations, LinesSmall, MaxLines, {TRUE}, ErrSmall)
Spec == Init /\ [][Next]_vars

\* one invocation, streams over every kind of line, with or without callback
InitRead == InitOrch({1}) /\ IdleSess /\ IdleCmd /\ IdleMon /\ IdleUsage /\ IdleExpiry /\ IdleApp /\ IdleFmt /\ IdleStream
NextRead == NextOrch({1}, LinesAll, MaxReadLines, BOOLEAN, ErrAll)
SpecRead == InitRead /\ [][NextRead]_vars

\* one invocation whose process writes several result lines
NextResults == NextOrch({1}, LinesResult, MaxReadLines, BOOLEAN, ErrSmall)
SpecResults == InitRead /\ [][NextResults]_vars

\* one invocation as above, which may also be cancelled from outside
NextCancel ==
    \/ NextRead
    \/ \E i \in {1} : Cancel(i)
SpecCancel == InitRead /\ [][NextCancel]_vars

\* one invocation as in SpecRead, under the scheduling the event loop and
\* the operating system give: _start_process returns or raises, the timer
\* of wait_for fires while the read+wait sequence is pending, a killed
\* process exits, and the handler resumes once the process has exited
FairRead ==
    /\ WF_vars(StartProcess(1) \/ StartFails(1))
    /\ WF_vars(Timeout(1))
    /\ WF_vars(killedBy[1] # {} /\ \E code \in ExitCodes : ProcExit(1, code))
    /\ WF_vars(HandlerWaitReturns(1))
SpecLive == InitRead /\ [][NextRead]_vars /\ FairRead

\* session manager: concurrent get_or_create_session calls of two users,
\* each passing no session id, an id of its own or an unknown id
InitSess == IdleOrch /\ IdleSess /\ IdleCmd /\ IdleMon /\ IdleUsage /\ IdleExpiry /\ IdleApp /\ IdleFmt /\ IdleStream
NextSess ==
    \/ \E u \in Users, sid \in {0, NoSuchId} \cup (1..NumCalls) : GocCall(u, sid)
    \/ \E c \in 1..NumCalls : GocAcquire(c)
    \/ \E c \in 1..NumCalls : GocLoad(c)
    \/ \E c \in 1..NumCalls : GocTouch(c)
    \/ \E c \in 1..NumCalls : GocEvict(c)
    \/ \E c \in 1..NumCalls : GocSave(c)
SpecSess == InitSess /\ [][NextSess]_vars

\* session manager as above, each call passing no session id, an unknown
\* id or the id of any persisted record, its own or another user's
NextSessAny ==
    \/ \E u \in Users, sid \in {0, NoSuchId} \cup (1..NumCalls) : GocCallAny(u, sid)
    \/ \E c \in 1..NumCalls : GocAcquire(c)
    \/ \E c \in 1..NumCalls : GocLoad(c)
    \/ \E c \in 1..NumCalls : GocTouch(c)
    \/ \E c \in 1..NumCalls : GocEvict(c)
    \/ \E c \in 1..NumCalls : GocSave(c)
SpecSessAny == InitSess /\ [][NextSessAny]_vars

\* _build_command applied to every combination of arguments
InitCmd ==
    /\ IdleOrch
    /\ IdleSess
    /\ cmdIn \in CmdInputs
    /\ cmdOut = NoneOpt
    /\ IdleMon
    /\ IdleUsage
    /\ IdleExpiry
    /\ IdleApp
    /\ IdleFmt
    /\ IdleStream
NextCmd == BuildCommand
SpecCmd == InitCmd /\ [][NextCmd]_vars

\* format_response on every short text and small message length
InitFmt ==
    /\ IdleOrch
    /\ IdleSess
    /\ IdleCmd
    /\ IdleMon
    /\ IdleUsage
    /\ IdleExpiry
    /\ IdleApp
    /\ fmtIn \in FormatInputs
    /\ fmtOut = NoneOpt
    /\ IdleStream
NextFmt == FormatResponse
SpecFmt == InitFmt /\ [][NextFmt]_vars

\* _read_stream_bounded on every short stream, cut into chunks in every way
InitStream ==
    /\ IdleOrch
    /\ IdleSess
    /\ IdleCmd
    /\ IdleMon
    /\ IdleUsage
    /\ IdleExpiry
    /\ IdleApp
    /\ IdleFmt
    /\ stream \in Streams
    /\ chunks = << >>
    /\ buffer = << >>
    /\ yielded = << >>
    /\ stream_pc = "reading"
NextStream ==
    \/ \E n \in 1..streaming_buffer_size : StreamRead(n)
    \/ StreamEnd
SpecStream == InitStream /\ [][NextStream]_vars

\* format_response on texts with fenced code blocks, with message lengths
\* below and above the length of a block
InitFence ==
    /\ IdleOrch
    /\ IdleSess
    /\ IdleCmd
    /\ IdleMon
    /\ IdleUsage
    /\ IdleExpiry
    /\ IdleApp
    /\ fmtIn \in FenceInputs
    /\ fmtOut = NoneOpt
    /\ IdleStream
NextFence == FormatResponse
SpecFence == InitFence /\ [][NextFence]_vars

\* the application: commands run through the SDK manager, directly and
\* through the facade, then the application shuts down
InitApp ==
    /\ IdleOrch
    /\ IdleSess
    /\ IdleCmd
    /\ IdleMon
    /\ IdleUsage
    /\ IdleExpiry
    /\ IdleApp
    /\ IdleFmt
    /\ IdleStream
NextApp ==
    \/ \E session_id \in SessionIds, run \in QueryRuns : ExecuteCommand(session_id, run)
    \/ \E session_id \in SessionIds, run \in QueryRuns : RunCommand(session_id, run)
    \/ ShutdownBegins
    \/ \E raises \in BOOLEAN : BotStop(raises)
    \/ FacadeShutdown
    \/ StorageClose
SpecApp == InitApp /\ [][NextApp]_vars

\* is_expired asked at every age of a session
InitExpiry ==
    /\ IdleOrch
    /\ IdleSess
    /\ IdleCmd
    /\ IdleMon
    /\ IdleUsage
    /\ IdleExpiry
    /\ IdleApp
    /\ IdleFmt
    /\ IdleStream
NextExpiry ==
    \/ ClockTick
    \/ TouchSession
    \/ \E ttl_hours \in TtlHours : IsExpired(ttl_hours)
SpecExpiry == InitExpiry /\ [][NextExpiry]_vars

\* record_usage: a few runs recorded on one session
InitUsageSpec ==
    /\ IdleOrch
    /\ IdleSess
    /\ IdleCmd
    /\ IdleMon
    /\ InitUsage
    /\ IdleExpiry
    /\ IdleApp
    /\ IdleFmt
    /\ IdleStream
NextUsage == \E run_result \in RunResults, t \in 0..MaxRuns : RecordUsage(run_result, t)
SpecUsage == InitUsageSpec /\ [][NextUsage]_vars

\* tool monitor: every configuration, a few evaluations, snapshots handed
\* to a caller who edits them, resets
InitMonitor ==
    /\ IdleOrch
    /\ IdleSess
    /\ IdleCmd
    /\ mon_config \in MonConfigs
    /\ InitMon
    /\ IdleUsage
    /\ IdleExpiry
    /\ IdleApp
    /\ IdleFmt
    /\ IdleStream
NextMonitor ==
    \/ \E k \in 1..Len(CallInputs), u \in Users : ValidateToolCall(k, u)
    \/ GetSecurityViolations
    \/ \E k \in 1..MaxEvals : CallerEditsEntry(k)
    \/ CallerEditsList
    \/ ResetStats
SpecMonitor == InitMonitor /\ [][NextMonitor]_vars

(***************************************************************************)
(* Properties of execute_command.                                          *)
(***************************************************************************)
Invs == DOMAIN pc

\* the line is malformed: not decodable, or decodable without a type field
Malformed(line) ==
    \/ line.json = "bad"
    \/ line.json # "dict"
    \/ "type" \notin DOMAIN line.d

\* the line is a JSON object with a type field and well-shaped sub-fields
WellFormed(line) ==
    /\ line.json = "dict"
    /\ "type" \in DOMAIN line.d
    /\ ~ ParseRaises(line)

\* the updates that the well-formed lines of a stream produce, in order
RECURSIVE EventsOf(_)
EventsOf(lines) ==
    IF lines = << >> THEN << >>
    ELSE (IF WellFormed(lines[1]) /\ lines[1].d.type \in EventTypes
          THEN _parse_stream_message(lines[1]) ELSE << >>)
         \o EventsOf(Tail(lines))

\* a result-typed line is among the lines
HasResultLine(lines) ==
    \E k \in DOMAIN lines :
        lines[k].json = "dict" /\ Get(lines[k].d, "type", "None") = "result"

\* C1 (as claimed): an invocation whose timeout elapsed ends with
\* ClaudeTimeoutError, raised after its process was killed and has exited.
C1_TimeoutEndsInTimeoutError ==
    \A i \in Invs :
        (timedOut[i] /\ pc[i] = "done")
            => (outcome[i] = "ClaudeTimeoutError" /\ proc[i] # "running")

\* C2: once execute_command has finished, with whatever outcome, the
\* registry holds no entry for the invocation's id.
C2_FinishedNotRegistered ==
    \A i \in Invs : pc[i] = "done" => i \notin Registered

\* C2 witness: a timeout on a process that was still running when the timer
\* fired has ended the invocation
C2_Witness ==
    \E i \in Invs :
        /\ pc[i] = "done"
        /\ outcome[i] = "ClaudeTimeoutError"
        /\ "timeout" \in killedBy[i]
        /\ \E j \in Invs : j # i /\ j \in Registered

C4_MalformedLinesNeverAbort ==
    \A i \in Invs :
        (\A k \in DOMAIN seen[i] : Malformed(seen[i][k]) \/ WellFormed(seen[i][k]))
            => /\ outcome[i] \notin {"TypeError", "AttributeError"}
               /\ hasCb[i] => cbLog[i] = EventsOf(seen[i])

\* C5: the callback is invoked for every event in arrival order whether or
\* not earlier invocations of it raised, and an invocation in which the
\* callback raised ends as the lines, the exit code and the timer decide.
C5_CallbackFaultIsolated ==
    \A i \in Invs :
        /\ hasCb[i] => cbLog[i] = EventsOf(seen[i])
        /\ (cbRaised[i] /\ pc[i] = "done")
            => IF timedOut[i]
               THEN outcome[i] \in {"ClaudeTimeoutError", "ProcessLookupError"}
               ELSE IF return_code[i] = Some(0)
               THEN outcome[i] = IF HasResultLine(seen[i])
                                 THEN "response" ELSE "ClaudeParsingError"
               ELSE IF return_code[i] # NoneOpt
               THEN outcome[i] = "ClaudeProcessError"
               ELSE /\ outcome[i] \in {"TypeError", "AttributeError"}
                    /\ LineStep(seen[i][Len(seen[i])], TRUE) = outcome[i]

\* C5 witness: after an invocation of the callback raised, the callback is
\* invoked again for a later event
C5_Witness ==
    \E i \in Invs :
        /\ cbRaised[i]
        /\ pc[i] = "callback"
        /\ Len(cbLog[i]) >= 2

(***************************************************************************)
(* Properties of get_or_create_session.                                    *)
(***************************************************************************)
Min(a, b) == IF a <= b THEN a ELSE b

\* C6: when no call of a user is in its critical section, the user has as
\* many persisted sessions as were created for it, but at most the cap;
\* and every evicted record was used no later than each record of its
\* user that is persisted.
C6_CapLeavesMostRecentlyUsed ==
    /\ \A u \in Users :
          lock[u] = 0
              => Len(UserSessions(u)) = Min(created[u], max_sessions_per_user)
    /\ \A e \in evicted : \A k \in DOMAIN storage :
          storage[k].user = e.user => e.last_used <= storage[k].last_used

\* C6 witness: cap + 1 calls without a session id, all of one user, have
\* returned; the cap is met and the first record, the oldest, is gone
C6_Witness ==
    \E u \in Users :
        /\ Len(call) = max_sessions_per_user + 1
        /\ \A c \in DOMAIN call :
              call[c].user = u /\ call[c].sid = 0 /\ call[c].pc = "done"
        /\ Len(UserSessions(u)) = max_sessions_per_user
        /\ \E e \in evicted :
              /\ e.id \notin StoredIds
              /\ \A k \in DOMAIN storage : e.last_used < storage[k].last_used

C8_ExistingSessionReturned ==
    [][\A c \in 1..NumCalls :
          (c \in DOMAIN call /\ call[c].pc = "touch" /\ call'[c].pc = "done")
              => /\ call'[c].ret = call[c].sid
                 /\ Len(storage') = Len(storage)
                 /\ StoredIds' = StoredIds]_vars

\* C8 witness: two calls with the same existing session_id have returned,
\* both with that session_id
C8_Witness ==
    \E c1, c2 \in DOMAIN call :
        /\ c1 # c2
        /\ call[c1].pc = "done" /\ call[c2].pc = "done"
        /\ call[c1].sid # 0
        /\ call[c1].sid = call[c2].sid
        /\ call[c1].ret = call[c1].sid /\ call[c2].ret = call[c1].sid
        /\ call[c1].sid \in StoredIds

(***************************************************************************)
(* Properties of _build_command.                                           *)
(***************************************************************************)
\* the command without the binary and without its last n arguments
ModePart(cmd, n) == SubSeq(cmd, 2, Len(cmd) - n)

\* number of arguments that follow the mode arguments
CommonLen(config) ==
    IF config.claude_allowed_tools \in {NoneOpt, Some(<< >>)} THEN 5 ELSE 7

\* C9: the mode arguments follow the table over (prompt empty, session id
\* present, continuation requested).
C9_ModeTable ==
    cmdOut # NoneOpt =>
        LET mode == ModePart(cmdOut[1], CommonLen(cmdIn.config))
            p == cmdIn.prompt
            present == cmdIn.session_id \notin {NoneOpt, Some("")}
        IN  /\ (cmdIn.continue_session /\ p = "" /\ present)
                    => mode = << "--continue", "--resume", cmdIn.session_id[1] >>
            /\ (cmdIn.continue_session /\ p = "" /\ ~ present)
                    => mode = << "--continue" >>
            /\ (cmdIn.continue_session /\ p # "" /\ present)
                    => mode = << "--resume", cmdIn.session_id[1], "-p", p >>
            /\ (cmdIn.continue_session /\ p # "" /\ ~ present)
                    => mode = << "-p", p >>
            /\ (~ cmdIn.continue_session /\ p # "")
                    => mode = << "-p", p >>
            /\ (~ cmdIn.continue_session /\ p = "")
                    => mode = << "-p", "" >>

\* C9 witness: a session id was supplied with a prompt and continuation was
\* not requested; the command starts fresh
C9_Witness ==
    /\ cmdOut # NoneOpt
    /\ cmdIn.session_id = Some("abc")
    /\ cmdIn.prompt = "hello"
    /\ ~ cmdIn.continue_session
    /\ ModePart(cmdOut[1], CommonLen(cmdIn.config)) = << "-p", "hello" >>

\* number of mode arguments, by the table of C9
ModeLen(in) ==
    IF in.continue_session /\ in.prompt = ""
    THEN (IF in.session_id \in {NoneOpt, Some("")} THEN 1 ELSE 3)
    ELSE IF in.continue_session /\ in.session_id \notin {NoneOpt, Some("")}
    THEN 4 ELSE 2

\* C10: after the mode arguments come --output-format stream-json,
\* --verbose and --max-turns <cap>, in this order; --allowedTools <list>
\* follows exactly when a non-empty tool list is configured.
C10_CommonArguments ==
    cmdOut # NoneOpt =>
        LET cmd == cmdOut[1]
            k == 1 + ModeLen(cmdIn)
            tools == cmdIn.config.claude_allowed_tools
            configured == tools # NoneOpt /\ Len(tools[1]) > 0
        IN  /\ Len(cmd) >= k + 5
            /\ cmd[k + 1] = "--output-format"
            /\ cmd[k + 2] = "stream-json"
            /\ cmd[k + 3] = "--verbose"
            /\ cmd[k + 4] = "--max-turns"
            /\ cmd[k + 5] = Str(cmdIn.config.claude_max_turns)
            /\ configured => /\ Len(cmd) = k + 7
                             /\ cmd[k + 6] = "--allowedTools"
                             /\ cmd[k + 7] = Join(",", tools[1])
            /\ ~ configured => Len(cmd) = k + 5

\* C10 witness: a command built with two allowed tools and a two-digit cap
C10_Witness ==
    /\ cmdOut # NoneOpt
    /\ cmdIn.config.claude_allowed_tools = Some(<< "Read", "Bash" >>)
    /\ cmdIn.config.claude_max_turns = 25
    /\ SubSeq(cmdOut[1], Len(cmdOut[1]) - 3, Len(cmdOut[1]))
          = << "--max-turns", "25", "--allowedTools", "Read,Bash" >>

(***************************************************************************)
(* Properties of the exit-code classification.                             *)
(***************************************************************************)
\* the invocation saw its process exit with a non-zero code and was not
\* cut short by the timer
FailedExit(i) ==
    /\ pc[i] = "done"
    /\ return_code[i] # NoneOpt
    /\ return_code[i] # Some(0)
    /\ ~ timedOut[i]

\* C11 (as claimed): a non-zero exit never returns a response; with the
\* usage-limit marker in the diagnostic text the error is of a kind of its
\* own, other than the generic process failure, and its message carries
\* the extracted reset time and timezone; without the marker the error is
\* the generic process failure with the exit code and the text.
C11_NonZeroExitRaisesTypedError ==
    \A i \in Invs :
        FailedExit(i)
            => /\ outcome[i] # "response"
               /\ response[i] = NoneOpt
               /\ raised_msg[i] # NoneOpt
               /\ IF HasUsageLimitMarker(error_msg[i][1])
                  THEN /\ outcome[i] # "ClaudeProcessError"
                       /\ raised_msg[i][1].reset_time = ResetTime(error_msg[i][1])
                       /\ raised_msg[i][1].timezone = Timezone(error_msg[i][1])
                       /\ error_msg[i][1] = ELimit
                            => /\ raised_msg[i][1].reset_time = "4pm"
                               /\ raised_msg[i][1].timezone = "PST"
                  ELSE /\ outcome[i] = "ClaudeProcessError"
                       /\ raised_msg[i][1].code = return_code[i][1]
                       /\ raised_msg[i][1].text = error_msg[i][1]

\* what C11 leaves when the kind of the error is set aside: no response,
\* ClaudeProcessError in both cases, the message as the text selects it
C11_NonZeroExitRaisesProcessError ==
    \A i \in Invs :
        FailedExit(i)
            => /\ outcome[i] = "ClaudeProcessError"
               /\ response[i] = NoneOpt
               /\ raised_msg[i] = Some(ProcessErrorMessage(return_code[i][1],
                                                           error_msg[i][1]))
               /\ error_msg[i][1] = ELimit
                    => raised_msg[i][1] = [kind |-> "usage_limit",
                                           reset_time |-> "4pm",
                                           timezone |-> "PST"]
               /\ error_msg[i][1] = ELimitCode
                    => raised_msg[i][1].timezone = "429"

\* C12: an invocation whose wait for the process returned exit code 0 and
\* that observed no result-typed line raises ClaudeParsingError and returns
\* no response.
C12_CleanExitWithoutResultIsParsingError ==
    \A i \in Invs :
        (pc[i] = "done" /\ return_code[i] = Some(0) /\ ~ HasResultLine(seen[i]))
            => /\ outcome[i] = "ClaudeParsingError"
               /\ response[i] = NoneOpt
               /\ raised_msg[i] = NoneOpt

\* C12 witness: the process wrote an assistant line and no result line and
\* exited with code 0; the invocation ended with ClaudeParsingError
C12_Witness ==
    \E i \in Invs :
        /\ pc[i] = "done"
        /\ return_code[i] = Some(0)
        /\ \E k \in DOMAIN seen[i] : seen[i][k] = LAsstText
        /\ ~ HasResultLine(seen[i])
        /\ outcome[i] = "ClaudeParsingError"

(***************************************************************************)
(* Properties of kill_all_processes and of the registry.                   *)
(***************************************************************************)
\* C13 (as claimed): the step that ends kill_all_processes ends it
\* normally, with the registry empty and with no process running that was
\* registered when it was called.
C13_KillAllKillsEveryRegistered ==
    [][(ka.pc \in {"idle", "wait"} /\ ka'.pc \notin {"idle", "wait"})
          => /\ ka'.pc = "done"
             /\ Registered' = {}
             /\ \A i \in KillAllSnapshot : proc'[i] # "running"]_vars

\* the step is taken by the timeout handler of invocation i
TimeoutStep(i) ==
    /\ timedOut'[i]
    /\ pc'[i] # pc[i]
    /\ pc'[i] \in {"handler_wait", "done"}

\* C14: a step of the timeout handler of one invocation sends its kill to
\* no process but its own, removes no id but its own from the registry and
\* leaves every other invocation, process and registry entry as it was.
C14_TimeoutTouchesOnlyOwnProcess ==
    [][\A i \in Invs :
          TimeoutStep(i)
              => /\ \A j \in Invs \ {i} :
                        /\ killedBy'[j] = killedBy[j]
                        /\ proc'[j] = proc[j]
                        /\ pc'[j] = pc[j]
                        /\ (j \in Registered') <=> (j \in Registered)
                 /\ Registered' \subseteq Registered
                 /\ Registered \ Registered' \subseteq {i}
                 /\ pc'[i] = "done" => i \notin Registered']_vars

\* C14 witness: one invocation has timed out, its process was killed and
\* its id is gone, while another one is registered with a running process
\* that nobody killed
C14_Witness ==
    \E i, j \in Invs :
        /\ i # j
        /\ timedOut[i]
        /\ pc[i] = "done"
        /\ "timeout" \in killedBy[i]
        /\ proc[i] # "running"
        /\ i \notin Registered
        /\ j \in Registered
        /\ proc[j] = "running"
        /\ killedBy[j] = {}

(***************************************************************************)
(* Properties of the tool monitor.                                         *)
(***************************************************************************)
\* the step is an evaluation by validate_tool_call
EvalStep == nEval' = nEval + 1

\* the checks of the policy, as they apply to a call
AllowListMatches(c) ==
    /\ mon_config.claude_allowed_tools \notin {NoneOpt, Some(<< >>)}
    /\ \A k \in DOMAIN mon_config.claude_allowed_tools[1] :
          mon_config.claude_allowed_tools[1][k] # c.tool_name
DenyListMatches(c) ==
    /\ mon_config.claude_disallowed_tools # NoneOpt
    /\ \E k \in DOMAIN mon_config.claude_disallowed_tools[1] :
          mon_config.claude_disallowed_tools[1][k] = c.tool_name
PathOf(c) ==
    IF "path" \in DOMAIN c.tool_input /\ c.tool_input.path # << >>
    THEN c.tool_input.path
    ELSE IF "file_path" \in DOMAIN c.tool_input THEN c.tool_input.file_path
    ELSE << >>
PathOutside(c) == LevelAfter(PathOf(c), 0) < 0
FileCheckMatches(c) ==
    /\ c.tool_name \in FileTools
    /\ PathOf(c) = << >> \/ (mon_config.security_validator /\ PathOutside(c))
ShellCheckMatches(c) ==
    /\ c.tool_name \in ShellTools
    /\ "command" \in DOMAIN c.tool_input
    /\ \E k \in DOMAIN dangerous_patterns :
          PatternIn(dangerous_patterns[k], c.tool_input.command)

\* kinds of the violations that the step recorded
KindsRecorded ==
    {heap'[security_violations'[k]].type :
        k \in (Len(security_violations) + 1)..Len(security_violations')}

\* C15: an evaluation is decided by the first of the checks allow-list,
\* deny-list, file path, shell pattern that matches: that check gives the
\* reason and the kind of the violation; the call is allowed exactly when
\* none matches.
C15_FirstMatchingCheckDecides ==
    [][EvalStep =>
        LET c == monRet'[1]
        IN  /\ c.allowed <=> ~ (\/ AllowListMatches(c) \/ DenyListMatches(c)
                                \/ FileCheckMatches(c) \/ ShellCheckMatches(c))
            /\ c.allowed => c.reason = "None" /\ KindsRecorded = {}
            /\ AllowListMatches(c)
                 => /\ c.reason = "Tool not allowed: " \o c.tool_name
                    /\ KindsRecorded = {"disallowed_tool"}
            /\ (~ AllowListMatches(c) /\ DenyListMatches(c))
                 => /\ c.reason = "Tool explicitly disallowed: " \o c.tool_name
                    /\ KindsRecorded = {"explicitly_disallowed_tool"}
            /\ (~ AllowListMatches(c) /\ ~ DenyListMatches(c) /\ FileCheckMatches(c))
                 => /\ c.reason = IF PathOf(c) = << >> THEN "File path required"
                                  ELSE validate_path(PathOf(c)).error
                    /\ KindsRecorded \subseteq {"invalid_file_path"}
            /\ (~ AllowListMatches(c) /\ ~ DenyListMatches(c)
                  /\ ~ FileCheckMatches(c) /\ ShellCheckMatches(c))
                 => /\ c.reason = "Dangerous command pattern detected: "
                                     \o FirstPattern(c.tool_input.command)[1]
                    /\ KindsRecorded = {"dangerous_command"}]_vars

\* C15 witness: the last call matched the allow-list check and the
\* deny-list check, and was denied by the allow-list
C15_Witness ==
    /\ monRet # NoneOpt
    /\ AllowListMatches(monRet[1])
    /\ DenyListMatches(monRet[1])
    /\ ~ monRet[1].allowed
    /\ monRet[1].reason = "Tool not allowed: WebFetch"
    /\ security_violations # << >>
    /\ heap[security_violations[Len(security_violations)]].type = "disallowed_tool"

\* C16 (as claimed): an evaluation that denies appends exactly one
\* violation and one that allows appends none.
C16_DenialAppendsOneViolation ==
    [][EvalStep =>
        /\ \A k \in DOMAIN security_violations :
              security_violations'[k] = security_violations[k]
        /\ Len(security_violations') =
              Len(security_violations) + (IF monRet'[1].allowed THEN 0 ELSE 1)]_vars

\* C17 (as claimed): total_calls of get_tool_stats is the number of
\* evaluations since the last reset.
C17_TotalCallsCountsEvaluations ==
    get_tool_stats.total_calls = sinceReset

\* C18 (as claimed): an evaluation of a file operation whose path leaves
\* the working directory denies and records one violation, of kind
\* invalid_file_path.
C18_OutsidePathDeniedAsInvalidPath ==
    [][(EvalStep /\ monRet'[1].tool_name \in FileTools /\ PathOutside(monRet'[1]))
          => /\ ~ monRet'[1].allowed
             /\ Len(security_violations') = Len(security_violations) + 1
             /\ KindsRecorded = {"invalid_file_path"}]_vars

\* C19 (as claimed): no step removes a recorded violation or changes one
\* of its fields.
C19_ViolationsAppendOnly ==
    [][/\ Len(security_violations') >= Len(security_violations)
       /\ \A k \in DOMAIN security_violations :
             /\ security_violations'[k] = security_violations[k]
             /\ heap'[security_violations[k]] = heap[security_violations[k]]]_vars

(***************************************************************************)
(* Properties of record_usage.                                             *)
(***************************************************************************)
RECURSIVE SumCost(_)
SumCost(rs) == IF rs = << >> THEN 0 ELSE Head(rs).cost + SumCost(Tail(rs))
RECURSIVE SumTurns(_)
SumTurns(rs) == IF rs = << >> THEN 0 ELSE Head(rs).num_turns + SumTurns(Tail(rs))

\* the tool names that occur in the runs recorded
NamesInRuns ==
    {runs[k].tools_used[j] : << k, j >> \in
        {p \in (DOMAIN runs) \X (1..3) : p[2] \in DOMAIN runs[p[1]].tools_used}}

\* C20: after k record_usage calls the session's cost and turns are the sums
\* over the k runs, message_count is k, tools_used holds each tool name of
\* the runs exactly once, and the persisted record is the in-memory one.
C20_UsageIsSumOfRuns ==
    runs # << >> =>
        /\ usage_session.total_cost = SumCost(runs)
        /\ usage_session.total_turns = SumTurns(runs)
        /\ usage_session.message_count = Len(runs)
        /\ {usage_session.tools_used[k] : k \in DOMAIN usage_session.tools_used}
              = NamesInRuns
        /\ Len(usage_session.tools_used) = Cardinality(NamesInRuns)
        /\ Cardinality({k \in DOMAIN usage_storage :
                           usage_storage[k].id = usage_session.id}) = 1
        /\ \A k \in DOMAIN usage_storage :
              usage_storage[k].id = usage_session.id
                  => usage_storage[k] = usage_session

\* C20 witness: three runs were recorded, a tool name occurred in two of
\* them and twice within one, costs were added
C20_Witness ==
    /\ Len(runs) = MaxRuns
    /\ runs[1].tools_used = << "Read", "Write" >>
    /\ runs[3].tools_used = << "Write", "Read", "Read" >>
    /\ usage_session.tools_used = << "Read", "Write" >>
    /\ usage_session.total_cost = 10
    /\ usage_session.message_count = 3
    /\ Len(usage_storage) = 2

(***************************************************************************)
(* Properties of is_expired.                                               *)
(***************************************************************************)
\* C21: is_expired(ttl_hours) is true exactly when more than ttl_hours have
\* passed since last_used; at an age of exactly ttl_hours it is false.
C21_ExpiredIffOlderThanTtl ==
    exp_ret # NoneOpt =>
        LET r == exp_ret[1]
            age == r.now - r.last_used
        IN  /\ r.expired <=> age > r.ttl_hours * UnitsPerHour
            /\ age = r.ttl_hours * UnitsPerHour => ~ r.expired

\* C21 witness: asked about a session that was used before, at an age of
\* exactly one hour, the answer was: not expired
C21_Witness ==
    /\ exp_ret # NoneOpt
    /\ exp_ret[1].ttl_hours = 1
    /\ exp_ret[1].last_used > 0
    /\ exp_ret[1].now - exp_ret[1].last_used = UnitsPerHour
    /\ ~ exp_ret[1].expired

(***************************************************************************)
(* Properties of the message buffer and of the final response.             *)
(***************************************************************************)
\* the line decodes to a value that has a type member
HasTypeField(line) ==
    \/ line.json = "dict" /\ "type" \in DOMAIN line.d
    \/ line.json = "str" /\ line.has

\* the last n elements of a sequence
LastN(xs, n) ==
    IF Len(xs) <= n THEN xs
    ELSE [k \in 1..n |-> xs[Len(xs) - n + k]]

\* C24: the message buffer never holds more than max_message_buffer
\* messages, and it holds the most recently accepted ones in arrival order.
C24_BufferIsBoundedTail ==
    \A i \in Invs :
        /\ Len(message_buffer[i]) <= max_message_buffer
        /\ message_buffer[i] =
              LastN(SelectSeq(seen[i], HasTypeField), max_message_buffer)

\* C24 witness: more messages than the cap were accepted, and the oldest
\* is no longer in the buffer
C24_Witness ==
    \E i \in Invs :
        /\ Len(SelectSeq(seen[i], HasTypeField)) > max_message_buffer
        /\ seen[i][1] = LAsstTool
        /\ Len(message_buffer[i]) = max_message_buffer
        /\ \A k \in DOMAIN message_buffer[i] : message_buffer[i][k] # LAsstTool

\* the JSON objects with a type field among the lines
IsTypedObject(line) == line.json = "dict" /\ "type" \in DOMAIN line.d

\* C25 (as claimed): tools_used of a returned response holds, in arrival
\* order, one record for every tool-call descriptor of every assistant line
\* the invocation produced.
C25_ToolsUsedCoversEveryLine ==
    \A i \in Invs :
        (pc[i] = "done" /\ outcome[i] = "response")
            => response[i][1].tools_used
                  = ToolsUsed(SelectSeq(seen[i], IsTypedObject))

\* C25 (supporting): tools_used holds the descriptors of the assistant
\* lines that are still in the message buffer when the process has exited.
C25_ToolsUsedCoversBuffer ==
    \A i \in Invs :
        (pc[i] = "done" /\ outcome[i] = "response")
            => response[i][1].tools_used
                  = ToolsUsed(LastN(SelectSeq(seen[i], IsTypedObject),
                                    max_message_buffer))

(***************************************************************************)
(* Properties of the mapping of lines to events.                           *)
(***************************************************************************)
\* C26 (as claimed): no invocation ends with an exception raised while a
\* line that decoded to an object with a type field was being mapped.
C26_TypedLinesNeverRaise ==
    \A i \in Invs :
        (seen[i] # << >> /\ IsTypedObject(seen[i][Len(seen[i])]))
            => outcome[i] \notin {"TypeError", "AttributeError"}

\* the read loop has taken a line in this step
TookLine(i) == Len(seen'[i]) = Len(seen[i]) + 1

\* C27: the stream callback is not invoked for a result line nor for a line
\* of a type outside assistant, user, system, tool_result, error, progress;
\* such a line does not end the invocation, and a result line is retained.
C27_NoEventForResultOrUnknownType ==
    [][\A i \in Invs :
          /\ \A k \in DOMAIN cbLog'[i] : cbLog'[i][k].type \in EventTypes
          /\ (/\ TookLine(i)
              /\ IsTypedObject(seen'[i][Len(seen'[i])])
              /\ seen'[i][Len(seen'[i])].d.type \notin EventTypes)
                => /\ cbLog'[i] = cbLog[i]
                   /\ pc'[i] = "read"
                   /\ outcome'[i] = outcome[i]
                   /\ seen'[i][Len(seen'[i])].d.type = "result"
                         => result'[i] = Some(seen'[i][Len(seen'[i])].d)]_vars

\* C27 witness: an invocation with a stream callback read a line of an
\* unknown type and a result line, the callback was never invoked, and the
\* response was built from the result line
C27_Witness ==
    \E i \in Invs :
        /\ hasCb[i]
        /\ seen[i] = << LWeird, LResult >>
        /\ cbLog[i] = << >>
        /\ outcome[i] = "response"
        /\ response[i][1].content = "done"

(***************************************************************************)
(* Properties of the facade, of the SDK manager and of the shutdown.       *)
(***************************************************************************)
\* the step is a run_command of the facade; fac_ret.started is the number
\* of queries started before the call
RunCommandStep == fac_ret' # fac_ret

\* the step is an execute_command of the SDK manager
ExecuteStep == tool_runs' # tool_runs

\* C22: when the orchestrator fails during run_command, the facade
\* surfaces that failure, the external tool was run once, and the session's
\* cost, turn count and message count are what they were before the call.
C22_FailurePropagatesWithoutRetryOrUsage ==
    [][(RunCommandStep /\ sdk_ret'[1].outcome # "response")
          => /\ fac_ret'[1].outcome = sdk_ret'[1].outcome
             /\ fac_ret'[1].response = NoneOpt
             /\ tool_runs' = fac_ret'[1].started + 1
             /\ LET before == IF fac_session = NoneOpt THEN FreshSession(1, 0)
                              ELSE fac_session[1]
                IN  /\ fac_session'[1].total_cost = before.total_cost
                    /\ fac_session'[1].total_turns = before.total_turns
                    /\ fac_session'[1].message_count = before.message_count]_vars

\* C22 witness: after a completed run was recorded, a run_command failed
\* with a timeout and the usage of the session is that of the one run
C22_Witness ==
    /\ fac_ret # NoneOpt
    /\ fac_ret[1].outcome = "ClaudeTimeoutError"
    /\ fac_session # NoneOpt
    /\ fac_session[1].message_count = 1
    /\ fac_session[1].total_cost = 5
    /\ tool_runs = 2

\* C23 (as claimed): when run_application has finished its shutdown, no
\* session of the manager is active and the session cache is empty, and
\* the storage is not closed before that.
C23_ShutdownTerminatesAndClears ==
    (app_pc = "complete" \/ storage_closed)
        => (active_sessions = {} /\ session_cache = {})

\* C28 (as claimed): the session id of a response is the id the external
\* tool reported; a generated id is used only when the tool reported none.
C28_ResponseCarriesReportedId ==
    (sdk_ret # NoneOpt /\ sdk_ret[1].outcome = "response"
        /\ sdk_ret[1].run.reported # NoneOpt)
        => sdk_ret[1].response[1].session_id = sdk_ret[1].run.reported[1]

\* C28 (supporting): the session id of a response is the id the caller
\* passed, or a newly generated one when the caller passed none.
C28_ResponseCarriesCallerIdOrUuid ==
    (sdk_ret # NoneOpt /\ sdk_ret[1].outcome = "response")
        => LET passed == sdk_ret[1].session_id
               id == sdk_ret[1].response[1].session_id
           IN  IF passed \in {NoneOpt, Some("")}
               THEN /\ \E k \in DOMAIN Uuid4 : id = Uuid4[k]
                    /\ id \notin sdk_ret[1].before
               ELSE id = passed[1]

\* C29: an execute_command whose query does not finish within the timeout
\* raises ClaudeTimeoutError and leaves active_sessions as it was.
C29_TimeoutRaisesTimeoutError ==
    [][(ExecuteStep /\ sdk_ret'[1].run.kind = "hangs")
          => /\ sdk_ret'[1].outcome = "ClaudeTimeoutError"
             /\ sdk_ret'[1].response = NoneOpt
             /\ active_sessions' = active_sessions]_vars

\* C29 witness: with a session active, a query timed out
C29_Witness ==
    /\ sdk_ret # NoneOpt
    /\ sdk_ret[1].run.kind = "hangs"
    /\ sdk_ret[1].outcome = "ClaudeTimeoutError"
    /\ sdk_ret[1].before # {}
    /\ active_sessions = sdk_ret[1].before
    /\ fac_ret = NoneOpt

(***************************************************************************)
(* Properties of the response formatter.                                   *)
(***************************************************************************)
\* concatenation of the messages
RECURSIVE Concat(_)
Concat(msgs) == IF msgs = << >> THEN << >> ELSE msgs[1] \o Concat(Tail(msgs))

NonBlank(text) == \E k \in DOMAIN text : text[k] \notin Whitespace
NoLineBreak(text) == \A k \in DOMAIN text : text[k] # "nl"

\* the text up to its last character that is not whitespace
WithoutTrailingWhitespace(text) ==
    SubSeq(text, 1, CHOOSE n \in 0..Len(text) :
                        /\ n = 0 \/ text[n] \notin Whitespace
                        /\ \A k \in (n + 1)..Len(text) : text[k] \in Whitespace)

\* C30 (as claimed): for non-blank content format_response returns at least
\* one message, none longer than max_message_length, and for content
\* without line breaks the messages concatenated are the content.
C30_MessagesBoundedAndConcatIsContent ==
    (fmtOut # NoneOpt /\ NonBlank(fmtIn.content))
        => /\ fmtOut[1] # << >>
           /\ \A k \in DOMAIN fmtOut[1] :
                 Len(fmtOut[1][k]) <= fmtIn.max_message_length
           /\ NoLineBreak(fmtIn.content) => Concat(fmtOut[1]) = fmtIn.content

\* C30 (amended): for non-blank content format_response returns at least
\* one message, none longer than max_message_length, and for content
\* without line breaks the messages concatenated are the content without
\* its trailing whitespace.
C30_MessagesBoundedAndConcatIsTrimmedContent ==
    (fmtOut # NoneOpt /\ NonBlank(fmtIn.content))
        => /\ fmtOut[1] # << >>
           /\ \A k \in DOMAIN fmtOut[1] :
                 /\ fmtOut[1][k] # << >>
                 /\ Len(fmtOut[1][k]) <= fmtIn.max_message_length
           /\ NoLineBreak(fmtIn.content)
                 => Concat(fmtOut[1]) = WithoutTrailingWhitespace(fmtIn.content)

\* C30 witness: a text without line breaks that ends in a space and is
\* longer than max_message_length was split into several messages
C30_Witness ==
    /\ fmtOut # NoneOpt
    /\ fmtIn.content = << "A", " ", "A", "A", " " >>
    /\ fmtIn.max_message_length = 2
    /\ fmtOut[1] = << << "A", " " >>, << "A", "A" >> >>

\* the lines of the text that open or close a fenced code block
\* (parser.py line 297)
FenceLineIndexes(lines) == {i \in DOMAIN lines : StartsWithFence(lines[i])}

\* the fenced code blocks of a text: an opening fence line (the 1st, 3rd,
\* ... fence line) with the next fence line, which closes it
CodeBlocks(lines) ==
    LET F == FenceLineIndexes(lines)
        Before(i) == Cardinality({j \in F : j < i})
    IN  {b \in F \X F :
            /\ b[1] < b[2]
            /\ Before(b[1]) % 2 = 0
            /\ Before(b[2]) = Before(b[1]) + 1}

\* the text of a block, from its opening fence line to its closing one
BlockText(lines, b) == JoinLines(SubSeq(lines, b[1], b[2]))

\* text occurs in message as a contiguous piece
OccursIn(text, message) ==
    \E k \in 0..(Len(message) - Len(text)) :
        SubSeq(message, k + 1, k + Len(text)) = text

\* C31: a fenced code block that fits within max_message_length is never
\* split across two messages: one of the messages holds the whole block,
\* from its opening fence line to its closing fence line.
C31_FittingCodeBlockNotSplit ==
    fmtOut # NoneOpt
        => LET lines == SplitLines(fmtIn.content, << >>)
           IN  \A b \in CodeBlocks(lines) :
                   Len(BlockText(lines, b)) <= fmtIn.max_message_length
                       => \E k \in DOMAIN fmtOut[1] :
                              OccursIn(BlockText(lines, b), fmtOut[1][k])

\* C32: whenever execute_command has finished, by return or by any raised
\* error or cancellation, the external process of the invocation has
\* exited: no invocation is finished while its process is still running.
C32_FinishedMeansProcessExited ==
    \A i \in DOMAIN pc : pc[i] = "done" => proc[i] # "running"

\* what holds on the paths that await the exit: after a response, a
\* ClaudeProcessError, a ClaudeParsingError or a ClaudeTimeoutError of a
\* registered invocation the process has exited
C32_AwaitedOutcomesMeanProcessExited ==
    \A i \in DOMAIN pc :
        (/\ pc[i] = "done"
         /\ outcome[i] \in {"response", "ClaudeProcessError", "ClaudeParsingError"})
            => proc[i] \in {"exited", "closed"}

\* the four outcomes of execute_command the specification names
FourOutcomes ==
    {"response", "ClaudeTimeoutError", "ClaudeProcessError", "ClaudeParsingError"}

\* C33: every execute_command call eventually finishes with a response, a
\* timeout error, a process-failure error or a parsing error, given that
\* the timer fires and a killed process exits.
C33_EveryCallEndsInOneOfFourOutcomes ==
    (pc[1] = "start") ~> (pc[1] = "done" /\ outcome[1] \in FourOutcomes)

\* what holds: every call eventually finishes
C33_EveryCallFinishes == (pc[1] = "start") ~> (pc[1] = "done")

\* the timer covers reading the output, the callback, waiting for the exit
\* and reading stderr: a finished call that was never timed out left from
\* one of those positions or from the start
C33_FinishedOutcomes ==
    pc[1] = "done"
        => outcome[1] \in FourOutcomes \cup
               {"OSError", "TypeError", "AttributeError", "ProcessLookupError"}

\* C34: stderr is read only after standard output has reached end of
\* stream and the process has exited, and only when the exit code is not
\* zero; it is never read on a clean exit or while output is being read.
C34_StderrReadOnlyAfterFailedExit ==
    \A i \in DOMAIN pc :
        (pc[i] = "stderr" \/ error_msg[i] # NoneOpt)
            => /\ ~ stdoutOpen[i]
               /\ proc[i] \in {"exited", "closed"}
               /\ rcode[i] # 0
               /\ return_code[i] = Some(rcode[i])

\* C34 witness: a process wrote lines, failed, and its stderr was read
C34_Witness ==
    /\ pc[1] = "done"
    /\ seen[1] # << >>
    /\ error_msg[1] # NoneOpt
    /\ outcome[1] = "ClaudeProcessError"

\* the command of a call: tool_input.get("command", "")
CommandOf(c) ==
    IF "command" \in DOMAIN c.tool_input THEN c.tool_input.command ELSE << >>

\* positions in the list of the patterns the lower-cased command contains
PatternsContained(c) ==
    {k \in DOMAIN dangerous_patterns : PatternIn(dangerous_patterns[k], CommandOf(c))}

\* C35: a shell-family call that passed the allow-list and the deny-list is
\* denied exactly when its lower-cased command contains an entry of the
\* dangerous-pattern list, and the reason names the first such entry in the
\* order of the list.
C35_ShellCallDeniedIffPatternFirstNamed ==
    [][(EvalStep /\ monRet'[1].tool_name \in ShellTools
                 /\ ~ AllowListMatches(monRet'[1])
                 /\ ~ DenyListMatches(monRet'[1]))
        => LET c == monRet'[1]
               hits == PatternsContained(c)
           IN  /\ c.allowed <=> hits = {}
               /\ hits # {}
                    => \E k \in hits :
                          /\ \A j \in hits : k <= j
                          /\ c.reason = "Dangerous command pattern detected: "
                                           \o dangerous_patterns[k]]_vars

\* C35 witness: a shell command in upper case that contains the second
\* entry of the list before the first one was denied with the first entry
C35_Witness ==
    /\ monRet # NoneOpt
    /\ monRet[1].tool_name = "Bash"
    /\ ~ AllowListMatches(monRet[1])
    /\ ~ DenyListMatches(monRet[1])
    /\ monRet[1].tool_input = [command |-> << "SUDO", "rm -rf", "/" >>]
    /\ ~ monRet[1].allowed
    /\ monRet[1].reason = "Dangerous command pattern detected: rm -rf"

\* the lines of a whole stream: the segments between the line feeds, each
\* decoded and stripped, the last one only when it has bytes
LinesOfStream(bytes) ==
    LET segments == SplitLines(bytes, << >>)
        n == Len(segments)
        kept == IF segments[n] = << >> THEN n - 1 ELSE n
    IN  [k \in 1..kept |-> Strip(Decode(segments[k]))]

\* C36: the lines _read_stream_bounded yields depend on the bytes of the
\* stream only, not on how the reads cut it into chunks: every segment
\* that ends in a line feed once and in order, then the tail that does not
\* when it has bytes; and what was yielded so far is a prefix of them.
C36_LinesIndependentOfChunks ==
    /\ stream_pc = "done" => yielded = LinesOfStream(stream)
    /\ stream_pc = "reading"
          => /\ Len(yielded) <= Len(LinesOfStream(stream))
             /\ yielded = SubSeq(LinesOfStream(stream), 1, Len(yielded))

\* C36 witness: a stream of two lines was read in chunks that cut the
\* two-byte character of the first line in the middle
C36_Witness ==
    /\ stream_pc = "done"
    /\ stream = << "0xC3", "0xA9", "nl", "a", "nl" >>
    /\ chunks = << 1, 3, 1 >>
    /\ yielded = << << "e-acute" >>, << "a" >> >>

\* positions of the result-typed lines among the lines read
ResultLines(i) ==
    {k \in DOMAIN seen[i] :
        /\ seen[i][k].json = "dict"
        /\ "type" \in DOMAIN seen[i][k].d
        /\ seen[i][k].d.type = "result"}

\* C37: when more than one result-typed line arrived, the response is
\* built from the last one: its content, cost and session id are those of
\* that line, or the defaults where the line has none, whatever the
\* earlier result lines held.
C37_ResponseBuiltFromLastResult ==
    \A i \in DOMAIN pc :
        (pc[i] = "done" /\ outcome[i] = "response")
            => /\ ResultLines(i) # {}
               /\ LET k == CHOOSE j \in ResultLines(i) :
                               \A h \in ResultLines(i) : h <= j
                      d == seen[i][k].d
                  IN  /\ response[i][1].content =
                            IF "result" \in DOMAIN d THEN d.result ELSE ""
                      /\ response[i][1].session_id =
                            IF "session_id" \in DOMAIN d THEN d.session_id ELSE ""
                      /\ response[i][1].cost =
                            IF "cost_usd" \in DOMAIN d THEN d.cost_usd ELSE 0

\* C37 witness: two result lines with different content arrived and a
\* third one without fields; the response has the defaults
C37_Witness ==
    /\ pc[1] = "done"
    /\ outcome[1] = "response"
    /\ seen[1] = << LResult, LResult2, LResultBare >>
    /\ response[1][1].content = ""
    /\ response[1][1].session_id = ""
    /\ response[1][1].cost = 0

\* the step was taken by a get_or_create_session call of user v
StepByCallOf(v) ==
    \E c \in DOMAIN call :
        /\ call[c].user = v
        /\ \/ call'[c] # call[c]
           \/ call' = call /\ call[c].pc = "enforce"

\* C38: get_or_create_session and the cap enforcement it triggers for one
\* user never delete or modify a persisted session of another user: the
\* persisted sessions of a user change only in steps of that user's calls.
C38_OtherUsersSessionsUnchanged ==
    [][\A v \in Users :
          UserSessions(v)' # UserSessions(v) => StepByCallOf(v)]_vars

\* what holds: cap enforcement deletes records of the calling user only,
\* and only the calling user gets new records
C38_EvictsAndCreatesForCallerOnly ==
    [][\A v \in Users :
          {r.id : r \in {UserSessions(v)'[k] : k \in DOMAIN UserSessions(v)'}}
             # {r.id : r \in {UserSessions(v)[k] : k \in DOMAIN UserSessions(v)}}
          => \/ StepByCallOf(v)
             \/ \E c \in DOMAIN call :
                   call[c].pc = "touch" /\ call[c].rec[1].user = v]_vars

\* C39: get_or_create_session(user_id, project_path, session_id) never
\* returns a session whose owner is not user_id, also when session_id names
\* a persisted session of another user.
C39_ReturnedSessionOwnedByCaller ==
    \A c \in DOMAIN call :
        call[c].pc = "done" => call[c].rec[1].user = call[c].user

====
